---- MODULE Spec2Model ----
(***************************************************************************)
(* Endless Horde: the fixed-timestep game loop, the input it services, the *)
(* walker and zombie population managers with their object pools, and the  *)
(* cooldown-gated attack system.                                           *)
(*                                                                         *)
(* Units.  Time is counted in ticks of 1000/120 ms (half a fixed step), so *)
(* that fixedTimeStep = 1000/60 ms and every millisecond constant of the   *)
(* source is an integer.  Positions are counted in fifths of a pixel on    *)
(* one axis (every entity is taken on the same horizontal line), and       *)
(* velocities in thousandths of a pixel per second.                        *)
(***************************************************************************)
EXTENDS Integers, Sequences, FiniteSets, TLC

VARIABLES
  \* Game (main.ts)
  lastTime, accumulator, isPaused, lastPauseKeyState, lastUpgradeKeyState,
  pc,                 \* position of the gameLoop callback
  \* the host: performance.now(), device kind
  now, isMobile,
  \* InputManager
  keys, mouseJustPressed, mousePosition,
  \* MobileUI, HUD
  lastTouchTime, showUpgradeMenu, upgradeButtons,
  \* WalkerSystem
  walkers, walkerPool, spawnTimer, nextWalkerId,
  \* ZombieSystem
  zombies, zombiePool, nextZombieId,
  \* ResourceManager, UpgradeManager, AreaManager, PerformanceMonitor
  souls, walkersDefeated, upgrades, currentArea, monitor,
  \* the animation-frame scheduling of the host and the life of the Game
  animationId, scheduled, started, destroyed,
  \* AttackSystem and CollisionSystem harnesses: two entities
  attacker, target,
  \* ObjectPool harness: one pool, its maxSize, the instances its client holds,
  \* the createFn calls made
  objPool, objMaxSize, held, objCreated,
  \* observations: what the last frame, step or call did, the instances the
  \* pools handed out in it and the instances released so far
  frame, tick, ret, clickPaused, requests, handed, released

gameVars   == <<lastTime, accumulator, isPaused, lastPauseKeyState, lastUpgradeKeyState, pc>>
hostVars   == <<now, isMobile>>
inputVars  == <<keys, mouseJustPressed, mousePosition>>
uiVars     == <<lastTouchTime, showUpgradeMenu, upgradeButtons>>
walkerVars == <<walkers, walkerPool, spawnTimer, nextWalkerId>>
zombieVars == <<zombies, zombiePool, nextZombieId>>
mgrVars    == <<souls, walkersDefeated, upgrades, currentArea, monitor>>
lifeVars   == <<animationId, scheduled, started, destroyed>>
atkVars    == <<attacker, target>>
poolVars   == <<objPool, objMaxSize, held, objCreated>>
obsVars    == <<frame, tick, ret, clickPaused, requests, handed, released>>
vars == <<gameVars, hostVars, inputVars, uiVars, walkerVars, zombieVars, mgrVars,
          lifeVars, atkVars, poolVars, obsVars>>

----------------------------------------------------------------------------
(* Bounds of the model *)

\* the wall clock stops the run here (ticks)
MaxTime == 13
\* pointer events the browser delivers in a run of the game loop
MaxClicks == 2
\* simulation steps of the population harness
MaxSimSteps == 13
\* spawnZombie calls of the population harness
MaxSpawnCalls == 3
\* spawnZombie calls and simulation steps of the cap harness
MaxCapCalls == 12
MaxCapSteps == 2
\* performAttack calls of the attack harness
MaxAttackCalls == 4
\* the frame up to which the pause key is operated in the monitor harness
MaxPauseKeyFrame == 3
MaxSeparationCalls == 3
MaxCoincideSteps == 6
\* steps of the longest frame, and steps of a run of frames
MaxBurst == 30
MaxBurstSteps == 32
\* simulation steps of the pair of zombies in the game
MaxPairSteps == 20
\* simulation steps of the restoring harness
MaxRestoreSteps == 25
\* updateWithWalkers calls of the target harness
MaxSeekCalls == 2
\* takeDamage and performAttack calls of the damage harness
MaxDamageCalls == 4
\* clock reads of one zombie tick before which the host may stall
MaxStallIndex == 2
\* clock of the attack harness (ticks)
MaxAttackClock == 130
\* get and release calls of the ObjectPool harness, and the largest maxSize
MaxPoolCalls == 6
MaxPoolSize == 2
\* the longest short list and the crowd of the culling harness
MaxCullList == 3
MaxCrowd == 32
\* simulation steps and spawnZombie calls of the crowd harness
MaxCrowdSteps == 4
MaxCrowdCalls == 1
\* updateMetrics calls and subscribers of the monitor harness
MaxMonitorCalls == 130
MaxSubscribers == 2
\* simulation steps of the full-field harness
MaxFullSteps == 13
\* ticks of the boundary harness
MaxBounceTicks == 3
\* ticks of the separation harness
MaxSepTicks == 120

----------------------------------------------------------------------------
(* Units and arithmetic *)

Ms(t) == (t * 120) \div 1000
Px(x) == 5 * x
Vel(v) == 1000 * v

Abs(x) == IF x < 0 THEN -x ELSE x
Sign(x) == IF x > 0 THEN 1 ELSE IF x < 0 THEN -1 ELSE 0
Min(a, b) == IF a < b THEN a ELSE b
Max(a, b) == IF a > b THEN a ELSE b
\* division rounding toward zero, as the fixed-point image of a float quotient
TruncDiv(a, b) == Sign(a) * (Abs(a) \div b)

\* Vector2.distanceTo on the modelled axis
distanceTo(a, b) == Abs(a - b)

\* Entity.update: position += velocity * deltaTime / 1000 (the speeds and
\* steps of the model make the quotient exact)
Integrate(pos, vel, deltaTime) == pos + TruncDiv(vel * deltaTime * 5, 1000 * 120)

fixedTimeStep == Ms(1000) \div 60

canvasWidth == Px(800)

\* Date.now() runs ahead of performance.now() by the page's time origin; any
\* offset of at least the touch cooldown behaves alike
DateNow(t) == t + Ms(1000)

\* requestAnimationFrame: the id of a request made at time t (the host
\* numbers its requests in the order they are made)
requestAnimationFrame(t) == t + 1

----------------------------------------------------------------------------
(* AreaManager, UpgradeManager, ResourceManager *)

areas == <<
  [id |-> 0, walkerHealth |-> 1,  walkerSpeed |-> 50,  soulMultiplier |-> 1,  unlockRequirement |-> 0],
  [id |-> 1, walkerHealth |-> 2,  walkerSpeed |-> 75,  soulMultiplier |-> 2,  unlockRequirement |-> 25],
  [id |-> 2, walkerHealth |-> 4,  walkerSpeed |-> 100, soulMultiplier |-> 4,  unlockRequirement |-> 100],
  [id |-> 3, walkerHealth |-> 8,  walkerSpeed |-> 125, soulMultiplier |-> 8,  unlockRequirement |-> 250],
  [id |-> 4, walkerHealth |-> 16, walkerSpeed |-> 150, soulMultiplier |-> 16, unlockRequirement |-> 500] >>

getCurrentArea(area) == areas[area + 1]

RECURSIVE HighestFrom(_, _, _)
HighestFrom(i, defeated, highest) ==
  IF i > Len(areas) THEN highest
  ELSE IF defeated >= areas[i].unlockRequirement
       THEN HighestFrom(i + 1, defeated, areas[i].id)
       ELSE highest

getHighestUnlockedArea(defeated) == HighestFrom(1, defeated, 0)

\* a manager that advances one area per call
advanceOneArea(area, defeated) ==
  IF getHighestUnlockedArea(defeated) > area THEN area + 1 ELSE area

\* the area after autoAdvanceArea
autoAdvanceArea(area, defeated) ==
  IF getHighestUnlockedArea(defeated) > area THEN getHighestUnlockedArea(defeated) ELSE area

getZombieSpeedMultiplierPct(up) == 100 + up["zombie-speed"] * 20

\* a cap that admits one zombie more
getMaxZombiesLoose(up) == 10 + up["max-zombies"] * 5 + 1

getMaxZombies(up) == 10 + up["max-zombies"] * 5

RECURSIVE Pow15(_, _)
\* baseCost * 1.5^level, floored once at the end as Math.floor does
Pow15(num, level) == IF level = 0 THEN num ELSE Pow15(num * 3, level - 1)

RECURSIVE Pow2(_)
Pow2(n) == IF n = 0 THEN 1 ELSE 2 * Pow2(n - 1)

baseCost(id) == IF id = "zombie-speed" THEN 10 ELSE 25

getUpgradeCost(up, id) == Pow15(baseCost(id), up[id]) \div Pow2(up[id])

UpgradeIds == {"zombie-speed", "max-zombies"}

\* ResourceManager.awardSouls: the ledger after one call
awardSouls(ledger, amount, multiplier) ==
  [souls |-> ledger.souls + amount * multiplier,
   walkersDefeated |-> ledger.walkersDefeated + 1]

----------------------------------------------------------------------------
(* PerformanceMonitor and EntityCuller.  The monitor's FPS sampling is not *)
(* part of this model: every run ends before the first 1-second sampling   *)
(* boundary, so the level is the one the run starts with.                  *)

\* the fields of a fresh PerformanceMonitor
initialMonitor ==
  [currentLevel |-> "high", cullingEnabled |-> FALSE,
   maxEntitiesBeforeCulling |-> 60, maxParticlesBeforeCulling |-> 100, entityCount |-> 0]

\* PerformanceMonitor.updateCullingSettings
updateCullingSettings(m) ==
  IF m.currentLevel = "high"
  THEN [m EXCEPT !.cullingEnabled = FALSE, !.maxEntitiesBeforeCulling = 80,
                 !.maxParticlesBeforeCulling = 150]
  ELSE IF m.currentLevel = "medium"
  THEN [m EXCEPT !.cullingEnabled = TRUE, !.maxEntitiesBeforeCulling = 50,
                 !.maxParticlesBeforeCulling = 75]
  ELSE [m EXCEPT !.cullingEnabled = TRUE, !.maxEntitiesBeforeCulling = 30,
                 !.maxParticlesBeforeCulling = 40]

\* PerformanceMonitor.updateMetrics between two FPS samplings
updateMetrics(m, entityCount) == [m EXCEPT !.entityCount = entityCount]

\* the sampling fields of a fresh PerformanceMonitor (times in ticks);
\* subscribers is the length of levelChangeCallbacks, notified the calls of
\* the subscribers made by the last updateMetrics, each with the level it
\* was passed and the settings in force when it was made
initialSampling ==
  [frameCount |-> 0, lastFpsTime |-> 0, fps |-> 60, frameTime |-> fixedTimeStep,
   frameTimes |-> <<>>, subscribers |-> 0, notified |-> <<>>]

\* PerformanceMonitor.onPerformanceLevelChange
onPerformanceLevelChange(m) == [m EXCEPT !.subscribers = @ + 1]

\* levelChangeCallbacks.forEach(callback => callback(newLevel))
notifySubscribers(m, newLevel) ==
  [m EXCEPT !.notified =
     [k \in 1..m.subscribers |->
        [subscriber |-> k, level |-> newLevel, cullingEnabled |-> m.cullingEnabled,
         maxEntities |-> m.maxEntitiesBeforeCulling]]]

\* PerformanceMonitor.getAverageFrameTime, as the fraction <<ticks, frames>>
getAverageFrameTime(m) ==
  IF Len(m.frameTimes) < 2 THEN <<m.frameTime, 1>>
  ELSE <<m.frameTimes[Len(m.frameTimes)] - m.frameTimes[1], Len(m.frameTimes) - 1>>

\* the level of a frame rate and an average frame time <<ticks, frames>>:
\* thresholds 50 and 30 frames per second, 20 and 33 ms
levelOf(fps, avg) ==
  IF fps >= 50 /\ avg[1] * 1000 <= 20 * 120 * avg[2] THEN "high"
  ELSE IF fps >= 30 /\ avg[1] * 1000 <= 33 * 120 * avg[2] THEN "medium"
  ELSE "low"

\* an updatePerformanceLevel that notifies at every sampling
updatePerformanceLevelAlways(m) ==
  LET newLevel == levelOf(m.fps, getAverageFrameTime(m))
  IN notifySubscribers(updateCullingSettings([m EXCEPT !.currentLevel = newLevel]), newLevel)

\* PerformanceMonitor.updatePerformanceLevel
updatePerformanceLevel(m) ==
  LET newLevel == levelOf(m.fps, getAverageFrameTime(m))
  IN IF newLevel # m.currentLevel
     THEN notifySubscribers(updateCullingSettings([m EXCEPT !.currentLevel = newLevel]),
                            newLevel)
     ELSE m

\* a sampling boundary every half second
atHalfSecond(currentTime, lastFpsTime) == currentTime - lastFpsTime >= Ms(500)

\* the sampling boundary of updateMetrics
atSamplingBoundary(currentTime, lastFpsTime) == currentTime - lastFpsTime >= Ms(1000)

\* Math.round(frames * 1000 / elapsed ms) for an elapsed time in ticks
fpsOver(frames, elapsed) == (2 * frames * 120 + elapsed) \div (2 * elapsed)

\* PerformanceMonitor.updateMetrics with its sampling: m carries the
\* sampling fields
updateMetricsAt(m, currentTime, entityCount) ==
  LET n == Len(m.frameTimes)
      pushed == Append(m.frameTimes, currentTime)
      m1 == [m EXCEPT !.frameTime = IF n > 0 THEN currentTime - m.frameTimes[n] ELSE @,
                      !.frameTimes = IF Len(pushed) > 60 THEN Tail(pushed) ELSE pushed,
                      !.frameCount = @ + 1,
                      !.notified = <<>>]
      m2 == IF atSamplingBoundary(currentTime, m1.lastFpsTime)
            THEN updatePerformanceLevel(
                   [m1 EXCEPT !.fps = fpsOver(m1.frameCount, currentTime - m1.lastFpsTime),
                              !.frameCount = 0,
                              !.lastFpsTime = currentTime])
            ELSE m1
  IN [m2 EXCEPT !.entityCount = entityCount]

shouldCullEntities(m) == m.cullingEnabled /\ m.entityCount > m.maxEntitiesBeforeCulling

\* getEntityUpdateFrequency, in percent
getEntityUpdateFrequency(m) ==
  IF m.currentLevel = "high" THEN 100 ELSE IF m.currentLevel = "medium" THEN 80 ELSE 60

isInViewport(e) == e.pos >= -Px(50) /\ e.pos <= canvasWidth + Px(50)

\* the diagonal of the 800 x 600 viewport
maxDistance == Px(1000)

\* priorityCull's score, scaled by 100 * maxDistance: 0.7 * (1 - distance from
\* the centre / maxDistance) + 0.3 * priority (0.5 when unset or 0)
CullScore(e) ==
  70 * (maxDistance - Abs(e.pos - canvasWidth \div 2))
  + 3 * (IF e.priority = <<>> \/ e.priority = <<0>> THEN 5 ELSE e.priority[1]) * maxDistance

RECURSIVE TopByScore(_, _)
\* the maxCount best-scored entities, best first (a stable descending sort)
TopByScore(es, maxCount) ==
  IF maxCount = 0 \/ es = <<>> THEN <<>>
  ELSE LET best == CHOOSE i \in 1..Len(es) :
                     \A j \in 1..Len(es) :
                        \/ CullScore(es[i]) > CullScore(es[j])
                        \/ CullScore(es[i]) = CullScore(es[j]) /\ i <= j
           rest == [k \in 1..(Len(es) - 1) |-> IF k < best THEN es[k] ELSE es[k + 1]]
       IN <<es[best]>> \o TopByScore(rest, maxCount - 1)

\* EntityCuller.cullEntities: the entities to update; maxEntities is <<>>
\* when the argument is left out, else <<n>> (n = 0 counts as left out)
cullEntitiesWith(m, entities, maxEntities) ==
  LET given == maxEntities # <<>> /\ maxEntities[1] # 0
  IN IF ~shouldCullEntities(m) /\ ~given THEN entities
     ELSE LET activeEntities == SelectSeq(entities, LAMBDA e : e.active)
              maxCount == IF given THEN maxEntities[1] ELSE m.maxEntitiesBeforeCulling
              viewportEntities == SelectSeq(activeEntities, isInViewport)
          IN IF Len(activeEntities) <= maxCount THEN activeEntities
             ELSE IF Len(viewportEntities) > maxCount
                  THEN TopByScore(viewportEntities, maxCount)
                  ELSE viewportEntities

\* cullEntities as the population managers call it
cullEntities(m, entities) == cullEntitiesWith(m, entities, <<>>)

Includes(es, e) == \E i \in 1..Len(es) : es[i].id = e.id

\* EntityCuller.shouldSkipUpdate: Math.random() decides below full frequency;
\* skip is the set of entities the draws of this tick skip
shouldSkipUpdate(m, e, skip) ==
  IF getEntityUpdateFrequency(m) >= 100 THEN FALSE ELSE e.id \in skip

----------------------------------------------------------------------------
(* ObjectPool *)

\* ObjectPool.get: the instance handed out and the pool left; created is
\* what createFn() would return
PoolGet(pool, created) ==
  IF Len(pool) > 0
  THEN [obj |-> pool[Len(pool)], pool |-> SubSeq(pool, 1, Len(pool) - 1), fresh |-> FALSE]
  ELSE [obj |-> created, pool |-> pool, fresh |-> TRUE]

\* new ObjectPool(createFn, resetFn, initialSize, maxSize): the pre-populated
\* pool; createFn[i] is what the i-th createFn() call returns
ObjectPool(createFn, initialSize) == [i \in 1..initialSize |-> createFn[i]]

\* a release that never drops an instance
PoolReleaseAlways(pool, reset, maxSize) == Append(pool, reset)

\* ObjectPool.release: reset is the instance after resetFn
PoolRelease(pool, reset, maxSize) ==
  IF Len(pool) < maxSize THEN Append(pool, reset) ELSE pool

\* the instance after release(obj): reset if the pool took it, else untouched
PoolReleased(pool, obj, reset, maxSize) ==
  IF Len(pool) < maxSize THEN reset ELSE obj

----------------------------------------------------------------------------
(* AttackSystem *)

\* a canAttack that forgets the cooldown
canAttackNoCooldown(a, t, config, currentTime) ==
  /\ a.active /\ t.active
  /\ distanceTo(a.pos, t.pos) <= config.range + (a.size + t.size) \div 2

canAttack(a, t, config, currentTime) ==
  /\ a.active /\ t.active
  /\ (a.lastAttackTime # <<>> => currentTime - a.lastAttackTime[1] >= config.cooldown)
  /\ distanceTo(a.pos, t.pos) <= config.range + (a.size + t.size) \div 2

\* Walker.takeDamage
takeDamage(w, damage) ==
  IF w.health - damage <= 0
  THEN [w EXCEPT !.health = w.health - damage, !.active = FALSE]
  ELSE [w EXCEPT !.health = w.health - damage]

\* Walker.takeDamage: the value returned
takeDamageResult(w, damage) == w.health - damage <= 0

\* an attack that deals its damage before it records its time
attackerBeforeStamp(a, currentTime) == a

\* the attacker as target.takeDamage finds it: attacker.lastAttackTime =
\* currentTime is the statement before the call
attackerAtDamage(a, currentTime) == [a EXCEPT !.lastAttackTime = <<currentTime>>]

\* AttackSystem.performAttack: the result, the attacker and the target after,
\* and the attacker at the moment of the damage
performAttack(a, t, config, currentTime) ==
  IF ~canAttack(a, t, config, currentTime)
  THEN [ok |-> FALSE, attacker |-> a, target |-> t, atDamage |-> a]
  ELSE [ok |-> TRUE,
        attacker |-> [a EXCEPT !.lastAttackTime = <<currentTime>>],
        target |-> takeDamage(t, config.damage),
        atDamage |-> attackerAtDamage(a, currentTime)]

\* Zombie.attackConfig
attackConfig == [damage |-> 1, range |-> Px(5), cooldown |-> Ms(500)]

----------------------------------------------------------------------------
(* Random draws.  Every Math.random() of one operation is an input of the  *)
(* action, one record rnd: the draws of one operation share their values.  *)

\* getRandomEdgePosition: the left and the right edge, 20 px outside
EdgeXs == {-Px(20), canvasWidth + Px(20)}
\* setRandomTarget: points of [size, canvasWidth - size)
Targets == {Px(8), Px(400)}
\* Walker size, 8 + random * 8
Sizes == {Px(8)}
\* speed variation in percent of baseSpeed, within [-20, 20)
SpeedJitters == {-4}
\* retarget interval, 2000 + random * 3000 ms
RetargetIntervals == {Ms(2000)}

\* the draws that build the pre-populated walker pool
BuildDraws ==
  [edge : {-Px(20)}, target : {Px(400)}, size : Sizes, jitter : SpeedJitters,
   interval : RetargetIntervals, skip : {{}}, stallAt : {0}]

setEntityPriority(e, tenths) == [e EXCEPT !.priority = <<Max(0, Min(10, tenths))>>]

\* a splice that removes nothing
RemoveNothing(s, i) == s

Remove(s, i) == [k \in 1..(Len(s) - 1) |-> IF k < i THEN s[k] ELSE s[k + 1]]

----------------------------------------------------------------------------
(* Walker *)

\* new Walker(x, y, canvasWidth, canvasHeight, areaConfig)
Walker(id, x, area, rnd) ==
  [id |-> id, active |-> TRUE, pos |-> x, vel |-> 0,
   baseSpeed |-> area.walkerSpeed,
   speed |-> area.walkerSpeed + (rnd.jitter * area.walkerSpeed) \div 100,
   targetPosition |-> rnd.target, size |-> rnd.size,
   health |-> area.walkerHealth, maxHealth |-> area.walkerHealth,
   soulValue |-> area.soulMultiplier, areaLevel |-> area.id,
   retargetTimer |-> 0, retargetInterval |-> rnd.interval, priority |-> <<>>]

\* Walker.keepInBounds on the modelled axis
keepInBounds(w, rnd) ==
  LET margin == w.size \div 2
  IN IF w.pos < margin
     THEN [w EXCEPT !.pos = margin, !.targetPosition = rnd.target]
     ELSE IF w.pos > canvasWidth - margin
          THEN [w EXCEPT !.pos = canvasWidth - margin, !.targetPosition = rnd.target]
          ELSE w

\* Walker.update
WalkerUpdate(w, deltaTime, rnd) ==
  IF ~w.active THEN w
  ELSE LET timer == w.retargetTimer + deltaTime
           w1 == IF timer >= w.retargetInterval
                    \/ distanceTo(w.pos, w.targetPosition) < Px(10)
                 THEN [w EXCEPT !.targetPosition = rnd.target, !.retargetTimer = 0,
                                !.retargetInterval = rnd.interval]
                 ELSE [w EXCEPT !.retargetTimer = timer]
           direction == w1.targetPosition - w1.pos
           v == IF Abs(direction) > Px(1) THEN Sign(direction) * Vel(w1.speed) ELSE 0
       IN keepInBounds([w1 EXCEPT !.vel = v, !.pos = Integrate(w1.pos, v, deltaTime)], rnd)

\* Walker.updateAreaSprite
updateAreaSprite(w, areaId) == [w EXCEPT !.areaLevel = areaId]

----------------------------------------------------------------------------
(* WalkerSystem *)

targetWalkerCount == 40
spawnInterval == Ms(100)

\* the walker pool's resetFn
resetWalker(w, area, rnd) ==
  [w EXCEPT !.active = TRUE, !.pos = rnd.edge, !.vel = 0, !.areaLevel = area.id]

\* the pool a new WalkerSystem pre-populates: 10 walkers of the current area
initialWalkerPool(area, rnd) ==
  [i \in 1..10 |-> Walker(i, rnd.edge, area, rnd)]

\* WalkerSystem.spawnWalker
spawnWalker(st, rnd) ==
  LET area == getCurrentArea(st.currentArea)
      got == PoolGet(st.walkerPool, Walker(st.nextWalkerId, rnd.edge, area, rnd))
  IN [st EXCEPT !.walkerPool = got.pool,
                !.nextWalkerId = IF got.fresh THEN @ + 1 ELSE @,
                !.walkers = Append(@, setEntityPriority(got.obj, 5 + area.id)),
                !.log.gets = Append(@, [kind |-> "walker", obj |-> got.obj,
                                        fresh |-> got.fresh])]

\* a removal test that also drops what the culler left out
isRemovedOrCulled(e, culled) == ~e.active \/ ~Includes(culled, e)

\* the removal test of the update loops: if (!entity.active)
isRemoved(e, culled) == ~e.active

\* why the update loops leave an active entity alone
idleReason(e, culled) == IF Includes(culled, e) THEN "skipped" ELSE "culled"

RECURSIVE WalkerLoop(_, _, _, _, _)
\* the removal and update loop of WalkerSystem.update, from index i down
WalkerLoop(st, i, culled, deltaTime, rnd) ==
  IF i = 0 THEN st
  ELSE LET walker == st.walkers[i]
       IN IF isRemoved(walker, culled)
          THEN WalkerLoop(
                 [st EXCEPT !.walkerPool =
                              PoolRelease(@, resetWalker(walker, getCurrentArea(st.currentArea), rnd), 50),
                            !.walkers = Remove(@, i),
                            !.log.released = @ \cup {<<"walker", walker.id>>}],
                 i - 1, culled, deltaTime, rnd)
          ELSE IF Includes(culled, walker) /\ ~shouldSkipUpdate(st.monitor, walker, rnd.skip)
               THEN WalkerLoop([st EXCEPT !.walkers[i] = WalkerUpdate(walker, deltaTime, rnd)],
                               i - 1, culled, deltaTime, rnd)
               ELSE WalkerLoop([st EXCEPT !.log.idle = @ \cup {<<"walker", walker.id,
                                                                   idleReason(walker, culled)>>}],
                               i - 1, culled, deltaTime, rnd)

\* a spawn test that goes by the timer alone
shouldSpawnOnTimer(count, timer) == timer >= spawnInterval

\* a spawn test that stops at half the target
shouldSpawnBelowHalf(count, timer) ==
  count < targetWalkerCount \div 2 /\ timer >= spawnInterval

\* the spawn test of WalkerSystem.update
shouldSpawn(count, timer) == count < targetWalkerCount /\ timer >= spawnInterval

\* WalkerSystem.update
WalkerSystemUpdate(st, deltaTime, rnd) ==
  LET timer == st.spawnTimer + deltaTime
      st1 == IF shouldSpawn(Len(st.walkers), timer)
             THEN [spawnWalker(st, rnd) EXCEPT !.spawnTimer = 0]
             ELSE [st EXCEPT !.spawnTimer = timer]
      st2 == WalkerLoop(st1, Len(st1.walkers), cullEntities(st1.monitor, st1.walkers),
                        deltaTime, rnd)
  IN [st2 EXCEPT !.log.order = Append(@, "walker")]

RECURSIVE WalkerClearFrom(_, _, _)
\* the loop of WalkerSystem.clear from the i-th walker on: destroy, release
WalkerClearFrom(st, i, rnd) ==
  IF i > Len(st.walkers) THEN st
  ELSE LET walker == [st.walkers[i] EXCEPT !.active = FALSE]
       IN WalkerClearFrom(
            [st EXCEPT !.walkers[i] = walker,
                       !.walkerPool =
                         PoolRelease(@, resetWalker(walker, getCurrentArea(st.currentArea), rnd), 50),
                       !.log.released = @ \cup {<<"walker", walker.id>>}],
            i + 1, rnd)

\* WalkerSystem.clear
walkerClear(st, rnd) == [WalkerClearFrom(st, 1, rnd) EXCEPT !.walkers = <<>>]

\* WalkerSystem.getActiveWalkers, as the instances' ids in array order
getActiveWalkers(st) ==
  LET act == SelectSeq(st.walkers, LAMBDA w : w.active)
  IN [k \in 1..Len(act) |-> act[k].id]

\* WalkerSystem.updateWalkerSprites
updateWalkerSprites(ws, areaId) ==
  [k \in 1..Len(ws) |-> IF ws[k].active THEN updateAreaSprite(ws[k], areaId) ELSE ws[k]]

----------------------------------------------------------------------------
(* Zombie *)

seekRange == Px(200)

\* new Zombie(x, y, canvasWidth, canvasHeight, speedMultiplier)
Zombie(id, x, pct) ==
  [id |-> id, active |-> TRUE, pos |-> x, vel |-> 0,
   baseSpeed |-> 60, speed |-> (60 * pct) \div 100, size |-> Px(10),
   target |-> <<>>, lastAttackTime |-> <<>>, priority |-> <<>>]

\* Zombie.updateSpeed
updateSpeed(z, pct) == [z EXCEPT !.speed = (z.baseSpeed * pct) \div 100]

WalkerById(st, id) == st.walkers[CHOOSE i \in 1..Len(st.walkers) : st.walkers[i].id = id]

RECURSIVE NearestOrLaterFrom(_, _, _, _, _)
\* a scan that prefers the later of two walkers at the same distance
NearestOrLaterFrom(z, st, snapshot, k, nearest) ==
  IF k > Len(snapshot) THEN nearest
  ELSE LET walker == WalkerById(st, snapshot[k])
           distance == distanceTo(z.pos, walker.pos)
       IN IF walker.active /\ distance <= seekRange
             /\ (nearest = <<>> \/ distance <= nearest[2])
          THEN NearestOrLaterFrom(z, st, snapshot, k + 1, <<walker.id, distance>>)
          ELSE NearestOrLaterFrom(z, st, snapshot, k + 1, nearest)

RECURSIVE NearestFrom(_, _, _, _, _)
\* the loop of Zombie.findNearestWalker from the k-th walker on; nearest is
\* <<>> or <<walker id, distance>>
NearestFrom(z, st, snapshot, k, nearest) ==
  IF k > Len(snapshot) THEN nearest
  ELSE LET walker == WalkerById(st, snapshot[k])
           distance == distanceTo(z.pos, walker.pos)
       IN IF walker.active /\ distance <= seekRange
             /\ (nearest = <<>> \/ distance < nearest[2])
          THEN NearestFrom(z, st, snapshot, k + 1, <<walker.id, distance>>)
          ELSE NearestFrom(z, st, snapshot, k + 1, nearest)

\* Zombie.findNearestWalker: the new target, <<>> or <<walker id>>
findNearestWalker(z, st, snapshot) ==
  LET nearest == NearestFrom(z, st, snapshot, 1, <<>>)
  IN IF nearest = <<>> THEN <<>> ELSE <<nearest[1]>>

\* Zombie.seekTarget: the velocity toward the target
seekTarget(z, walker) ==
  LET direction == walker.pos - z.pos
  IN IF Abs(direction) > Px(1) THEN Sign(direction) * Vel(z.speed) ELSE 0

\* Zombie.updateWithWalkers: the velocity this.update(deltaTime) integrates,
\* assigned by seekTarget or by velocity.set(0, 0)
velocityIntegrated(z, t, st) ==
  IF t # <<>> /\ WalkerById(st, t[1]).active
  THEN seekTarget(z, WalkerById(st, t[1]))
  ELSE 0

\* Zombie.updateWithWalkers
updateWithWalkers(z, deltaTime, st, snapshot) ==
  IF ~z.active THEN z
  ELSE LET t == findNearestWalker(z, st, snapshot)
           v == velocityIntegrated(z, t, st)
       IN [z EXCEPT !.target = t, !.vel = v, !.pos = Integrate(z.pos, v, deltaTime)]

----------------------------------------------------------------------------
(* CollisionSystem *)

RECURSIVE SeparationFromAnyOverlap(_, _, _, _)
\* an inner loop that also counts a neighbour at distance 0 and pushes the
\* earlier entity of a coincident pair to the left, the later to the right
SeparationFromAnyOverlap(es, i, j, acc) ==
  IF j > Len(es) THEN acc
  ELSE IF i = j \/ ~es[j].active THEN SeparationFromAnyOverlap(es, i, j + 1, acc)
  ELSE LET distance == distanceTo(es[i].pos, es[j].pos)
           minDistance == (es[i].size + es[j].size) \div 2 + Px(5)
           away == IF distance = 0 THEN (IF i < j THEN -1 ELSE 1)
                   ELSE Sign(es[i].pos - es[j].pos)
       IN IF distance < minDistance
          THEN SeparationFromAnyOverlap(es, i, j + 1,
                 [sum |-> acc.sum + away * (((minDistance - distance) * 1000) \div minDistance),
                  count |-> acc.count + 1])
          ELSE SeparationFromAnyOverlap(es, i, j + 1, acc)

RECURSIVE SeparationFrom(_, _, _, _)
\* the inner loop of applySeparation for entity i, from neighbour j on:
\* the summed separation (in thousandths) and the neighbour count
SeparationFrom(es, i, j, acc) ==
  IF j > Len(es) THEN acc
  ELSE IF i = j \/ ~es[j].active THEN SeparationFrom(es, i, j + 1, acc)
  ELSE LET distance == distanceTo(es[i].pos, es[j].pos)
           minDistance == (es[i].size + es[j].size) \div 2 + Px(5)
       IN IF distance < minDistance /\ distance > 0
          THEN SeparationFrom(es, i, j + 1,
                 [sum |-> acc.sum + Sign(es[i].pos - es[j].pos)
                                    * (((minDistance - distance) * 1000) \div minDistance),
                  count |-> acc.count + 1])
          ELSE SeparationFrom(es, i, j + 1, acc)

\* a separation whose velocity change points toward the neighbours
applyAttraction(es, separationForce) ==
  [i \in 1..Len(es) |->
     IF ~es[i].active THEN es[i]
     ELSE LET acc == SeparationFrom(es, i, 1, [sum |-> 0, count |-> 0])
          IN IF acc.count > 0
             THEN [es[i] EXCEPT !.vel = @ - TruncDiv(acc.sum * separationForce * 16,
                                                      acc.count * 1000)]
             ELSE es[i]]

\* CollisionSystem.applySeparation
applySeparation(es, separationForce) ==
  [i \in 1..Len(es) |->
     IF ~es[i].active THEN es[i]
     ELSE LET acc == SeparationFrom(es, i, 1, [sum |-> 0, count |-> 0])
          IN IF acc.count > 0
             THEN [es[i] EXCEPT !.vel = @ + TruncDiv(acc.sum * separationForce * 16,
                                                      acc.count * 1000)]
             ELSE es[i]]

\* a boundary collision of the soft forces only, without the hard boundary
applyBoundaryForces(e, bounceForce) ==
  IF ~e.active THEN e
  ELSE LET margin == e.size \div 2
           softBoundary == Px(20)
           force(penetration) ==
             (Min((penetration * 1000) \div softBoundary, 1000) * bounceForce * 16) \div 1000
           e1 == IF e.pos < margin + softBoundary
                 THEN [e EXCEPT !.vel = @ + force(margin + softBoundary - e.pos)]
                 ELSE e
       IN IF e1.pos > canvasWidth - margin - softBoundary
          THEN [e1 EXCEPT !.vel = @ - force(e1.pos - (canvasWidth - margin - softBoundary))]
          ELSE e1

\* CollisionSystem.applyBoundaryCollision on the modelled axis
applyBoundaryCollision(e, bounceForce) ==
  IF ~e.active THEN e
  ELSE LET margin == e.size \div 2
           softBoundary == Px(20)
           force(penetration) ==
             (Min((penetration * 1000) \div softBoundary, 1000) * bounceForce * 16) \div 1000
           e1 == IF e.pos < margin + softBoundary
                 THEN LET pushed == e.vel + force(margin + softBoundary - e.pos)
                      IN IF e.pos < margin
                         THEN [e EXCEPT !.pos = margin, !.vel = Max(0, pushed)]
                         ELSE [e EXCEPT !.vel = pushed]
                 ELSE e
       IN IF e1.pos > canvasWidth - margin - softBoundary
          THEN LET pushed == e1.vel - force(e1.pos - (canvasWidth - margin - softBoundary))
               IN IF e1.pos > canvasWidth - margin
                  THEN [e1 EXCEPT !.pos = canvasWidth - margin, !.vel = Min(0, pushed)]
                  ELSE [e1 EXCEPT !.vel = pushed]
          ELSE e1

----------------------------------------------------------------------------
(* ZombieSystem.  st is the program state as one record; st.reads counts   *)
(* the performance.now() reads of the running tick and st.log records the  *)
(* attacks, awards and defeat callbacks of the tick.                        *)

\* a resetFn that leaves the zombie where it was
resetZombieInPlace(z, pct) == updateSpeed([z EXCEPT !.active = TRUE, !.vel = 0], pct)

\* the zombie pool's resetFn
resetZombie(z, pct) == updateSpeed([z EXCEPT !.active = TRUE, !.pos = 0, !.vel = 0], pct)

\* the pool a new ZombieSystem pre-populates
initialZombiePool(pct) == [i \in 1..5 |-> Zombie(i, 0, pct)]

\* performance.now() inside a tick: the host may stall for a cooldown's length
\* before the read numbered rnd.stallAt
ReadClock(st, rnd) ==
  [st EXCEPT !.reads = @ + 1,
             !.now = IF st.reads + 1 = rnd.stallAt THEN @ + attackConfig.cooldown ELSE @]

WalkerIndex(st, id) == CHOOSE i \in 1..Len(st.walkers) : st.walkers[i].id = id

RECURSIVE CheckCollisionsFrom(_, _, _, _, _, _)

\* an attack that rewards every hit, defeat or not
AfterAttackAlways(st, zi, wi, res) ==
  LET area == getCurrentArea(st.currentArea)
      ledger == awardSouls([souls |-> st.souls, walkersDefeated |-> st.walkersDefeated],
                           1, area.soulMultiplier)
  IN [st EXCEPT !.zombies[zi] = res.attacker,
                !.walkers[wi] = res.target,
                !.log.attacks = Append(@, <<res.attacker.id, res.target.id>>),
                !.souls = ledger.souls,
                !.walkersDefeated = ledger.walkersDefeated,
                !.log.awards = Append(@, <<res.target.id, area.soulMultiplier>>),
                !.log.callbacks = @ + 1]

\* the state after a successful attack of zombie zi on walker wi (the body of
\* the if in checkCollisions); res is performAttack's outcome
AfterAttack(st, zi, wi, res) ==
  LET hit == [st EXCEPT !.zombies[zi] = res.attacker,
                        !.walkers[wi] = res.target,
                        !.log.attacks = Append(@, <<res.attacker.id, res.target.id>>)]
      area == getCurrentArea(st.currentArea)
      ledger == awardSouls([souls |-> st.souls, walkersDefeated |-> st.walkersDefeated],
                           1, area.soulMultiplier)
  IN IF ~res.target.active
     THEN [hit EXCEPT !.souls = ledger.souls,
                      !.walkersDefeated = ledger.walkersDefeated,
                      !.log.awards = Append(@, <<res.target.id, area.soulMultiplier>>),
                      !.log.callbacks = @ + 1]
     ELSE hit

\* the loop of checkCollisions from the k-th walker on; stop tells whether a
\* successful attack ends the loop (the break statement)
CheckCollisionsFrom(st, zi, snapshot, k, rnd, stop) ==
  IF k > Len(snapshot) THEN st
  ELSE LET wi == WalkerIndex(st, snapshot[k])
       IN IF ~st.walkers[wi].active
          THEN CheckCollisionsFrom(st, zi, snapshot, k + 1, rnd, stop)
          ELSE LET st1 == ReadClock(st, rnd)
                   res == performAttack(st1.zombies[zi], st1.walkers[wi], attackConfig, st1.now)
               IN IF res.ok
                  THEN IF stop THEN AfterAttack(st1, zi, wi, res)
                       ELSE CheckCollisionsFrom(AfterAttack(st1, zi, wi, res),
                                                zi, snapshot, k + 1, rnd, stop)
                  ELSE CheckCollisionsFrom(st1, zi, snapshot, k + 1, rnd, stop)

\* a checkCollisions without the break
checkCollisionsNoBreak(st, zi, snapshot, rnd) ==
  CheckCollisionsFrom(st, zi, snapshot, 1, rnd, FALSE)

\* ZombieSystem.checkCollisions
checkCollisions(st, zi, snapshot, rnd) == CheckCollisionsFrom(st, zi, snapshot, 1, rnd, TRUE)

RECURSIVE ZombieLoop(_, _, _, _, _, _)
\* the removal and update loop of ZombieSystem.update, from index i down
ZombieLoop(st, i, culled, deltaTime, snapshot, rnd) ==
  IF i = 0 THEN st
  ELSE LET zombie == st.zombies[i]
       IN IF isRemoved(zombie, culled)
          THEN ZombieLoop(
                 [st EXCEPT !.zombiePool =
                              PoolRelease(@, resetZombie(zombie, getZombieSpeedMultiplierPct(st.upgrades)), 20),
                            !.zombies = Remove(@, i),
                            !.log.released = @ \cup {<<"zombie", zombie.id>>}],
                 i - 1, culled, deltaTime, snapshot, rnd)
          ELSE IF Includes(culled, zombie) /\ ~shouldSkipUpdate(st.monitor, zombie, rnd.skip)
               THEN ZombieLoop(
                      checkCollisions(
                        [st EXCEPT !.zombies[i] = updateWithWalkers(zombie, deltaTime, st, snapshot)],
                        i, snapshot, rnd),
                      i - 1, culled, deltaTime, snapshot, rnd)
               ELSE ZombieLoop([st EXCEPT !.log.idle = @ \cup {<<"zombie", zombie.id,
                                                                   idleReason(zombie, culled)>>}],
                               i - 1, culled, deltaTime, snapshot, rnd)

\* ZombieSystem.update
ZombieSystemUpdate(st, deltaTime, snapshot, rnd) ==
  LET st1 == ZombieLoop(st, Len(st.zombies), cullEntities(st.monitor, st.zombies),
                        deltaTime, snapshot, rnd)
      activeCount == Len(SelectSeq(st1.zombies, LAMBDA z : z.active))
      separated == IF activeCount > 1 THEN applySeparation(st1.zombies, 40) ELSE st1.zombies
  IN [st1 EXCEPT !.zombies = [k \in 1..Len(separated) |-> applyBoundaryCollision(separated[k], 100)],
                 !.log.order = @ \o <<"zombie">>
                                 \o (IF activeCount > 1 THEN <<"separation">> ELSE <<>>)
                                 \o <<"boundary">>]

\* ZombieSystem.spawnZombie at position x: the state after, and the result
spawnZombie(st, x) ==
  IF Len(st.zombies) >= getMaxZombies(st.upgrades)
  THEN [st |-> st, result |-> FALSE]
  ELSE LET margin == Px(10)
           clampedX == Max(margin, Min(canvasWidth - margin, x))
           got == PoolGet(st.zombiePool,
                          Zombie(st.nextZombieId, 0, getZombieSpeedMultiplierPct(st.upgrades)))
           zombie == setEntityPriority([got.obj EXCEPT !.pos = clampedX], 8)
       IN [st |-> [st EXCEPT !.zombiePool = got.pool,
                             !.nextZombieId = IF got.fresh THEN @ + 1 ELSE @,
                             !.zombies = Append(@, zombie),
                             !.log.gets = Append(@, [kind |-> "zombie", obj |-> got.obj,
                                                     fresh |-> got.fresh])],
           result |-> TRUE]

RECURSIVE ZombieClearFrom(_, _)
\* the loop of ZombieSystem.clear from the i-th zombie on: destroy, release
ZombieClearFrom(st, i) ==
  IF i > Len(st.zombies) THEN st
  ELSE LET zombie == [st.zombies[i] EXCEPT !.active = FALSE]
       IN ZombieClearFrom(
            [st EXCEPT !.zombies[i] = zombie,
                       !.zombiePool =
                         PoolRelease(@, resetZombie(zombie, getZombieSpeedMultiplierPct(st.upgrades)), 20),
                       !.log.released = @ \cup {<<"zombie", zombie.id>>}],
            i + 1)

\* ZombieSystem.clear
zombieClear(st) == [ZombieClearFrom(st, 1) EXCEPT !.zombies = <<>>]

\* ZombieSystem.applySpeedUpgrades
applySpeedUpgrades(st) ==
  [st EXCEPT !.zombies =
     [k \in 1..Len(@) |-> IF @[k].active
                          THEN updateSpeed(@[k], getZombieSpeedMultiplierPct(st.upgrades))
                          ELSE @[k]]]

----------------------------------------------------------------------------
(* HUD and MobileUI.  A pointer position is its x coordinate and the       *)
(* region of the screen it lies in: "field", a mobile touch button         *)
(* ("pause", "upgrades", "settings") or an upgrade button of the open menu *)
(* ("zombie-speed", "max-zombies").                                         *)

\* the cooldown of a device optimizeForDevice leaves alone
touchCooldown == Ms(150)

MobileButtons == {"pause", "upgrades", "settings"}

\* HUD.initializeUpgradeButtons: cost and level from the upgrade manager,
\* disabled, not yet positioned
initializeUpgradeButtons(up) ==
  [id \in UpgradeIds |->
     [cost |-> getUpgradeCost(up, id), level |-> up[id], enabled |-> FALSE, placed |-> FALSE]]

\* HUD.update
hudUpdate(st) ==
  [st EXCEPT !.upgradeButtons =
     [id \in UpgradeIds |->
        [cost |-> getUpgradeCost(st.upgrades, id), level |-> st.upgrades[id],
         enabled |-> st.souls >= getUpgradeCost(st.upgrades, id),
         placed |-> @[id].placed \/ st.showUpgradeMenu]]]

\* Game.handleUpgradePurchased
handleUpgradePurchased(st, id) ==
  IF id = "zombie-speed" THEN applySpeedUpgrades(st) ELSE st

\* HUD.purchaseUpgrade with ResourceManager.spendSouls and
\* UpgradeManager.purchaseUpgrade
purchaseUpgrade(st, id) ==
  LET button == st.upgradeButtons[id]
  IN IF ~button.enabled \/ st.souls < button.cost
     THEN [st EXCEPT !.ret = [op |-> "purchaseUpgrade", result |-> FALSE]]
     ELSE handleUpgradePurchased(
            [st EXCEPT !.souls = @ - button.cost,
                       !.upgrades[id] = @ + 1,
                       !.ret = [op |-> "purchaseUpgrade", result |-> TRUE]],
            id)

\* HUD.handleClick
hudHandleClick(st, mousePos) ==
  IF st.showUpgradeMenu /\ mousePos.hit \in UpgradeIds
     /\ st.upgradeButtons[mousePos.hit].placed /\ st.upgradeButtons[mousePos.hit].enabled
  THEN purchaseUpgrade(st, mousePos.hit)
  ELSE st

\* MobileUI.handleTouch: <<>> for null, else <<button id>>
handleTouch(st, touchPos) ==
  IF ~st.isMobile THEN <<>>
  ELSE IF DateNow(st.now) - st.lastTouchTime < touchCooldown THEN <<>>
  ELSE IF touchPos.hit \in MobileButtons THEN <<touchPos.hit>>
  ELSE <<>>

\* Game.togglePause
togglePause(paused) == ~paused

\* Game.handleMobileButtonPress (the settings button only toggles rendering
\* options)
handleMobileButtonPress(st, buttonId) ==
  IF buttonId = "pause" THEN [st EXCEPT !.isPaused = togglePause(@)]
  ELSE IF buttonId = "upgrades" THEN [st EXCEPT !.showUpgradeMenu = ~@]
  ELSE st

----------------------------------------------------------------------------
(* Game.update and what it calls *)

\* Game.handleGameInput
handleGameInput(st) ==
  LET currentUpgradeKeyState == "u" \in st.keys
      st1 == [st EXCEPT !.showUpgradeMenu =
                          IF currentUpgradeKeyState /\ ~st.lastUpgradeKeyState THEN ~@ ELSE @,
                        !.lastUpgradeKeyState = currentUpgradeKeyState]
      \* wasMouseJustPressed consumes the click
      st2 == [st1 EXCEPT !.mouseJustPressed = FALSE]
      mousePos == st.mousePosition
      mobileButtonPressed == handleTouch(st2, mousePos)
  IN IF ~st1.mouseJustPressed THEN st1
     ELSE IF mobileButtonPressed # <<>>
          THEN handleMobileButtonPress([st2 EXCEPT !.lastTouchTime = DateNow(st.now)],
                                       mobileButtonPressed[1])
          ELSE IF st2.showUpgradeMenu
               THEN hudHandleClick(st2, mousePos)
               ELSE LET sp == spawnZombie(st2, mousePos.x)
                    IN [sp.st EXCEPT !.ret = [op |-> "spawnZombie", result |-> sp.result]]

\* Game.checkAreaProgression
checkAreaProgression(st) ==
  LET newArea == autoAdvanceArea(st.currentArea, st.walkersDefeated)
  IN IF newArea # st.currentArea
     THEN [st EXCEPT !.currentArea = newArea, !.walkers = updateWalkerSprites(@, newArea)]
     ELSE st

\* the systems part of Game.update: walkers, then zombies against the
\* walkers active after the walker update
updateSystems(st, deltaTime, rnd) ==
  LET st1 == WalkerSystemUpdate(st, deltaTime, rnd)
  IN ZombieSystemUpdate(st1, deltaTime, getActiveWalkers(st1), rnd)

\* Game.update
update(st, deltaTime, rnd) ==
  hudUpdate(updateSystems(checkAreaProgression(handleGameInput(st)), deltaTime, rnd))

----------------------------------------------------------------------------
(* The program state as one record, and back *)

\* gets: the instances the pools handed out, as they were handed out;
\* released: the instances given to release(); idle: the active entities the
\* tick did not update; order: the phases of the tick in the order they ran
emptyLog ==
  [attacks |-> <<>>, awards |-> <<>>, callbacks |-> 0,
   gets |-> <<>>, released |-> {}, idle |-> {}, order |-> <<>>]

St ==
  [isPaused |-> isPaused, lastUpgradeKeyState |-> lastUpgradeKeyState,
   now |-> now, isMobile |-> isMobile,
   keys |-> keys, mouseJustPressed |-> mouseJustPressed, mousePosition |-> mousePosition,
   lastTouchTime |-> lastTouchTime, showUpgradeMenu |-> showUpgradeMenu,
   upgradeButtons |-> upgradeButtons,
   walkers |-> walkers, walkerPool |-> walkerPool, spawnTimer |-> spawnTimer,
   nextWalkerId |-> nextWalkerId,
   zombies |-> zombies, zombiePool |-> zombiePool, nextZombieId |-> nextZombieId,
   souls |-> souls, walkersDefeated |-> walkersDefeated, upgrades |-> upgrades,
   currentArea |-> currentArea, monitor |-> monitor,
   ret |-> ret, reads |-> 0, log |-> emptyLog]

Install(s) ==
  /\ isPaused' = s.isPaused
  /\ lastUpgradeKeyState' = s.lastUpgradeKeyState
  /\ now' = s.now
  /\ isMobile' = s.isMobile
  /\ keys' = s.keys
  /\ mouseJustPressed' = s.mouseJustPressed
  /\ mousePosition' = s.mousePosition
  /\ lastTouchTime' = s.lastTouchTime
  /\ showUpgradeMenu' = s.showUpgradeMenu
  /\ upgradeButtons' = s.upgradeButtons
  /\ walkers' = s.walkers
  /\ walkerPool' = s.walkerPool
  /\ spawnTimer' = s.spawnTimer
  /\ nextWalkerId' = s.nextWalkerId
  /\ zombies' = s.zombies
  /\ zombiePool' = s.zombiePool
  /\ nextZombieId' = s.nextZombieId
  /\ souls' = s.souls
  /\ walkersDefeated' = s.walkersDefeated
  /\ upgrades' = s.upgrades
  /\ currentArea' = s.currentArea
  /\ monitor' = s.monitor
  /\ ret' = s.ret
  /\ handed' = s.log.gets
  /\ released' = released \cup s.log.released

\* the walkers a zombie update defeated: active before it, inactive after
Deaths(before, after) ==
  {before.walkers[i].id : i \in {j \in 1..Len(before.walkers) :
                                    before.walkers[j].active /\ ~after.walkers[j].active}}

\* what one Game.update did, for the observation variable tick
Observe(st, deltaTime, rnd, n) ==
  LET before == WalkerSystemUpdate(checkAreaProgression(handleGameInput(st)), deltaTime, rnd)
      after == update(st, deltaTime, rnd)
  IN [n |-> n, deltaTime |-> deltaTime,
      attacks |-> after.log.attacks, awards |-> after.log.awards,
      callbacks |-> after.log.callbacks, deaths |-> Deaths(before, after),
      area |-> before.currentArea,
      soulsGained |-> after.souls - before.souls,
      defeatedGained |-> after.walkersDefeated - before.walkersDefeated,
      idle |-> after.log.idle, released |-> after.log.released, order |-> after.log.order]

----------------------------------------------------------------------------
(* Initial state: the game constructed from a saved game, its first frame  *)
(* (deltaTime 0) run.                                                      *)

noUpgrades == [id \in UpgradeIds |-> 0]

\* saved games the constructors may find in localStorage
SavedGames ==
  { [souls |-> 0,  walkersDefeated |-> 0,  currentArea |-> 0, upgrades |-> noUpgrades],
    [souls |-> 30, walkersDefeated |-> 25, currentArea |-> 1, upgrades |-> noUpgrades] }

noCall == [op |-> "none", result |-> FALSE]

noTick ==
  [n |-> 0, deltaTime |-> 0, attacks |-> <<>>, awards |-> <<>>, callbacks |-> 0,
   deaths |-> {}, area |-> 0, soulsGained |-> 0, defeatedGained |-> 0,
   idle |-> {}, released |-> {}, order |-> <<>>]

noFrame ==
  [steps |-> 0, totalSteps |-> 0, unpausedElapsed |-> 0, paused |-> FALSE,
   pausedAtStart |-> FALSE, keyEdge |-> FALSE, tapPending |-> FALSE, done |-> FALSE,
   reported |-> 0, budget |-> 0]

\* everything but the populations and the performance monitor
InitRest(saved, mobile, t) ==
  /\ lastTime = t /\ accumulator = 0 /\ isPaused = FALSE
  /\ lastPauseKeyState = FALSE /\ lastUpgradeKeyState = FALSE
  /\ pc = "idle"
  /\ now = t /\ isMobile = mobile
  /\ keys = {} /\ mouseJustPressed = FALSE /\ mousePosition = [x |-> 0, hit |-> "field"]
  /\ lastTouchTime = 0 /\ showUpgradeMenu = FALSE
  /\ upgradeButtons = initializeUpgradeButtons(saved.upgrades)
  /\ spawnTimer = 0
  /\ souls = saved.souls /\ walkersDefeated = saved.walkersDefeated
  /\ upgrades = saved.upgrades /\ currentArea = saved.currentArea
  /\ frame = noFrame /\ tick = noTick /\ ret = noCall /\ clickPaused = FALSE
  /\ requests = 0 /\ handed = <<>> /\ released = {}

InitGame(saved, mobile, rnd) ==
  /\ InitRest(saved, mobile, 0)
  /\ walkers = <<>>
  /\ walkerPool = initialWalkerPool(getCurrentArea(saved.currentArea), rnd)
  /\ nextWalkerId = 11
  /\ zombies = <<>>
  /\ zombiePool = initialZombiePool(getZombieSpeedMultiplierPct(saved.upgrades))
  /\ nextZombieId = 6
  /\ monitor = initialMonitor

freshGame == [souls |-> 0, walkersDefeated |-> 0, currentArea |-> 0, upgrades |-> noUpgrades]

\* the game loop is running: its last callback has requested the next frame
LoopRunning ==
  /\ animationId = requestAnimationFrame(now) /\ scheduled = {animationId}
  /\ started = TRUE /\ destroyed = FALSE

\* no ObjectPool harness
NoPool == objPool = <<>> /\ objMaxSize = 0 /\ held = {} /\ objCreated = 0

Init ==
  /\ \E mobile \in BOOLEAN, rnd \in BuildDraws : InitGame(freshGame, mobile, rnd)
  /\ LoopRunning /\ NoPool
  /\ attacker = Zombie(1, 0, 100)
  /\ target = Walker(1, 0, getCurrentArea(0), CHOOSE rnd \in BuildDraws : TRUE)

----------------------------------------------------------------------------
(* The game loop.  A gameLoop callback runs from pc = "idle" through its   *)
(* simulation steps (pc = "loop") to the render (pc = "render"); the       *)
(* browser delivers input events between callbacks only.                   *)

\* frame intervals the browser may deliver (ticks)
Deltas == {1, 2, 12}

Keys == {"p"}

\* pointer positions of requests and taps
Pointers ==
  { [x |-> Px(10), hit |-> "field"], [x |-> Px(760), hit |-> "pause"] }

\* the draws of a simulation step of the game loop
StepDraws ==
  [edge : EdgeXs, target : Targets, size : Sizes, jitter : SpeedJitters,
   interval : RetargetIntervals, skip : {{}}, stallAt : {0}]

\* a gameLoop that simulates whether paused or not
simulationAlways(paused) == TRUE

\* the guard of the simulation branch of gameLoop
simulationEnabled(paused) == ~paused

\* a catch-up loop that leaves a whole step in the accumulator
loopContinuesStrict(acc) == acc > fixedTimeStep

\* the condition of the catch-up loop
loopContinues(acc) == acc >= fixedTimeStep

\* WalkerSystem.getWalkerCount + ZombieSystem.getZombieCount
totalEntities ==
  Len(SelectSeq(walkers, LAMBDA w : w.active)) + Len(SelectSeq(zombies, LAMBDA z : z.active))

\* keydown listener
KeyDown(k) ==
  /\ pc = "idle"
  /\ k \notin keys
  /\ keys' = keys \cup {k}
  /\ UNCHANGED <<gameVars, hostVars, mouseJustPressed, mousePosition, uiVars, walkerVars,
                 zombieVars, mgrVars, lifeVars, atkVars, poolVars, obsVars>>

\* keyup listener
KeyUp(k) ==
  /\ pc = "idle"
  /\ k \in keys
  /\ keys' = keys \ {k}
  /\ UNCHANGED <<gameVars, hostVars, mouseJustPressed, mousePosition, uiVars, walkerVars,
                 zombieVars, mgrVars, lifeVars, atkVars, poolVars, obsVars>>

\* mousedown / touchstart listener: InputManager.handlePointerDown
PointerDown(p) ==
  /\ pc = "idle"
  /\ requests < MaxClicks
  /\ requests' = requests + 1
  /\ mousePosition' = p
  /\ mouseJustPressed' = TRUE
  /\ clickPaused' = isPaused
  /\ UNCHANGED <<gameVars, hostVars, keys, uiVars, walkerVars, zombieVars, mgrVars,
                 lifeVars, atkVars, poolVars, frame, tick, ret, handed, released>>

\* a loop that keeps lastTime where it was while the game is paused
lastTimeHeldWhilePaused(paused, currentTime, previous) ==
  IF paused THEN previous ELSE currentTime

\* gameLoop: this.lastTime = currentTime, in every callback
refreshLastTime(paused, currentTime, previous) == currentTime

\* gameLoop up to the catch-up loop: timing, updateFPS, handlePauseInput,
\* accumulation
GameLoopBegin(delta) ==
  /\ pc = "idle"
  /\ now + delta <= MaxTime
  /\ animationId \in scheduled
  /\ animationId' = requestAnimationFrame(now + delta)
  /\ scheduled' = (scheduled \ {animationId}) \cup {animationId'}
  /\ LET currentTime == now + delta
         deltaTime == currentTime - lastTime
         currentPauseKeyState == "p" \in keys
         paused == IF currentPauseKeyState /\ ~lastPauseKeyState
                   THEN togglePause(isPaused) ELSE isPaused
         acc == IF simulationEnabled(paused) THEN accumulator + deltaTime ELSE accumulator
     IN /\ now' = currentTime
        /\ lastTime' = refreshLastTime(paused, currentTime, lastTime)
        /\ monitor' = updateMetrics(monitor, totalEntities)
        /\ lastPauseKeyState' = currentPauseKeyState
        /\ isPaused' = paused
        /\ accumulator' = acc
        /\ pc' = IF simulationEnabled(paused) /\ loopContinues(acc) THEN "loop" ELSE "render"
        /\ frame' = [frame EXCEPT
                       !.steps = 0,
                       !.unpausedElapsed = IF simulationEnabled(paused) THEN @ + deltaTime ELSE @,
                       !.paused = paused,
                       !.pausedAtStart = isPaused,
                       !.keyEdge = currentPauseKeyState /\ ~lastPauseKeyState,
                       !.tapPending = /\ mouseJustPressed
                                      /\ handleTouch(St, mousePosition) = <<"pause">>,
                       !.done = FALSE,
                       !.reported = frame.totalSteps,
                       !.budget = acc]
  /\ UNCHANGED <<lastUpgradeKeyState, isMobile, inputVars, uiVars, walkerVars, zombieVars,
                 souls, walkersDefeated, upgrades, currentArea, started, destroyed,
                 atkVars, poolVars, tick, ret, clickPaused, requests, handed, released>>

\* one iteration of the catch-up loop: update(fixedTimeStep)
UpdateStep ==
  /\ pc = "loop"
  /\ \E rnd \in StepDraws :
       /\ Install(update(St, fixedTimeStep, rnd))
       /\ tick' = Observe(St, fixedTimeStep, rnd, tick.n + 1)
  /\ accumulator' = accumulator - fixedTimeStep
  /\ pc' = IF loopContinues(accumulator') THEN "loop" ELSE "render"
  /\ frame' = [frame EXCEPT !.steps = @ + 1, !.totalSteps = @ + 1]
  /\ UNCHANGED <<lastTime, lastPauseKeyState, lifeVars, atkVars, poolVars, clickPaused,
                 requests>>

\* the render that ends every callback
Render ==
  /\ pc = "render"
  /\ pc' = "idle"
  /\ frame' = [frame EXCEPT !.done = TRUE]
  /\ UNCHANGED <<lastTime, accumulator, isPaused, lastPauseKeyState, lastUpgradeKeyState,
                 hostVars, inputVars, uiVars, walkerVars, zombieVars, mgrVars, lifeVars,
                 atkVars, poolVars, tick, ret, clickPaused, requests, handed, released>>

Next ==
  \/ \E k \in Keys : KeyDown(k)
  \/ \E k \in Keys : KeyUp(k)
  \/ \E p \in Pointers : PointerDown(p)
  \/ \E delta \in Deltas : GameLoopBegin(delta)
  \/ UpdateStep
  \/ Render

Spec == Init /\ [][Next]_vars

----------------------------------------------------------------------------
(* The life of the loop: the game from its construction, before the asset  *)
(* promise has settled, with destroy() called between callbacks.            *)

\* window.cancelAnimationFrame
cancelAnimationFrame(pending, id) == pending \ {id}

\* the constructed game: initializeAssets() pending, no frame requested
InitLife ==
  /\ \E rnd \in BuildDraws : InitGame(freshGame, FALSE, rnd)
  /\ animationId = 0 /\ scheduled = {} /\ started = FALSE /\ destroyed = FALSE
  /\ NoPool
  /\ attacker = Zombie(1, 0, 100)
  /\ target = Walker(1, 0, getCurrentArea(0), CHOOSE rnd \in BuildDraws : TRUE)

\* the asset promise settles: initializeSystems, startGameLoop and the first
\* gameLoop call, of deltaTime 0, up to its render
AssetsSettled ==
  /\ pc = "idle"
  /\ started = FALSE
  /\ started' = TRUE
  /\ lastTime' = now
  /\ animationId' = requestAnimationFrame(now)
  /\ scheduled' = scheduled \cup {animationId'}
  /\ monitor' = updateMetrics(monitor, totalEntities)
  /\ lastPauseKeyState' = ("p" \in keys)
  /\ pc' = "render"
  /\ frame' = [frame EXCEPT !.steps = 0, !.done = FALSE, !.reported = frame.totalSteps]
  /\ UNCHANGED <<accumulator, isPaused, lastUpgradeKeyState, now, isMobile, inputVars, uiVars,
                 walkerVars, zombieVars, souls, walkersDefeated, upgrades, currentArea,
                 destroyed, atkVars, poolVars, tick, ret, clickPaused, requests, handed,
                 released>>

\* Game.destroy
Destroy ==
  /\ pc = "idle"
  /\ destroyed = FALSE
  /\ destroyed' = TRUE
  /\ scheduled' = IF animationId # 0 THEN cancelAnimationFrame(scheduled, animationId)
                  ELSE scheduled
  /\ UNCHANGED <<gameVars, hostVars, inputVars, uiVars, walkerVars, zombieVars, mgrVars,
                 animationId, started, atkVars, poolVars, obsVars>>

NextLife ==
  \/ AssetsSettled
  \/ Destroy
  \/ \E delta \in Deltas : GameLoopBegin(delta)
  \/ UpdateStep
  \/ Render

SpecLife == InitLife /\ [][NextLife]_vars

----------------------------------------------------------------------------
(* The population harness: spawnZombie calls, upgrade purchases and        *)
(* simulation ticks driven directly, the wall clock advancing one fixed    *)
(* step per tick and stalling where the host stalls.                       *)

SpawnXs == {Px(10), Px(14)}

\* the draws of a tick of the harness: walkers enter at the left edge, where
\* the zombies stand, and head for the middle of the field
SimDraws ==
  [edge : {-Px(20)}, target : {Px(400)}, size : Sizes, jitter : SpeedJitters,
   interval : RetargetIntervals, skip : {{}}, stallAt : 0..MaxStallIndex]

InitSim ==
  /\ \E saved \in SavedGames, rnd \in BuildDraws : InitGame(saved, FALSE, rnd)
  /\ LoopRunning /\ NoPool
  /\ attacker = Zombie(1, 0, 100)
  /\ target = Walker(1, 0, getCurrentArea(0), CHOOSE rnd \in BuildDraws : TRUE)

\* zombieSystem.spawnZombie(position)
SimSpawnZombie(x, maxCalls) ==
  /\ requests < maxCalls
  /\ requests' = requests + 1
  /\ LET sp == spawnZombie(St, x)
     IN Install([sp.st EXCEPT !.ret = [op |-> "spawnZombie", result |-> sp.result]])
  /\ UNCHANGED <<lastTime, accumulator, lastPauseKeyState, pc, lifeVars, atkVars, poolVars,
                 frame, tick, clickPaused>>

\* one simulation tick with the draws rnd: update(fixedTimeStep)
SimStepWith(rnd, maxSteps) ==
  /\ tick.n < maxSteps
  /\ LET st == [St EXCEPT !.now = @ + fixedTimeStep]
     IN /\ Install(update(st, fixedTimeStep, rnd))
        /\ tick' = Observe(st, fixedTimeStep, rnd, tick.n + 1)
  /\ UNCHANGED <<lastTime, accumulator, lastPauseKeyState, pc, lifeVars, atkVars, poolVars,
                 frame, clickPaused, requests>>

\* one simulation tick: update(fixedTimeStep)
SimStep(maxSteps) == \E rnd \in SimDraws : SimStepWith(rnd, maxSteps)

\* a click on an upgrade button of the open menu: HUD.purchaseUpgrade
SimPurchase(id) ==
  /\ Install(purchaseUpgrade(St, id))
  /\ UNCHANGED <<lastTime, accumulator, lastPauseKeyState, pc, lifeVars, atkVars, poolVars,
                 frame, tick, clickPaused, requests>>

\* walkerSystem.clear()
SimClearWalkers ==
  /\ requests < MaxSpawnCalls
  /\ requests' = requests + 1
  /\ Len(walkers) > 0
  /\ \E rnd \in SimDraws :
       Install([walkerClear(St, rnd) EXCEPT !.ret = [op |-> "clear", result |-> TRUE]])
  /\ UNCHANGED <<lastTime, accumulator, lastPauseKeyState, pc, lifeVars, atkVars, poolVars,
                 frame, tick, clickPaused>>

\* zombieSystem.clear()
SimClearZombies ==
  /\ requests < MaxSpawnCalls
  /\ requests' = requests + 1
  /\ Len(zombies) > 0
  /\ Install([zombieClear(St) EXCEPT !.ret = [op |-> "clear", result |-> TRUE]])
  /\ UNCHANGED <<lastTime, accumulator, lastPauseKeyState, pc, lifeVars, atkVars, poolVars,
                 frame, tick, clickPaused>>

NextSim ==
  \/ \E x \in SpawnXs : SimSpawnZombie(x, MaxSpawnCalls)
  \/ SimStep(MaxSimSteps)
  \/ SimClearWalkers
  \/ SimClearZombies

SpecSim == InitSim /\ [][NextSim]_vars

\* saved games at the doorstep of an area: one and two defeats short of the
\* second area, one defeat short of the third, and a ledger of 100 defeats
\* whose area entry could not be loaded (loadFromStorage falls back to 0)
AreaSaves ==
  { [souls |-> 0, walkersDefeated |-> 23,  currentArea |-> 0, upgrades |-> noUpgrades],
    [souls |-> 0, walkersDefeated |-> 24,  currentArea |-> 0, upgrades |-> noUpgrades],
    [souls |-> 0, walkersDefeated |-> 99,  currentArea |-> 1, upgrades |-> noUpgrades],
    [souls |-> 0, walkersDefeated |-> 100, currentArea |-> 0, upgrades |-> noUpgrades] }

InitArea ==
  /\ \E saved \in AreaSaves, rnd \in BuildDraws : InitGame(saved, FALSE, rnd)
  /\ LoopRunning /\ NoPool
  /\ attacker = Zombie(1, 0, 100)
  /\ target = Walker(1, 0, getCurrentArea(0), CHOOSE rnd \in BuildDraws : TRUE)

SpecArea == InitArea /\ [][NextSim]_vars

\* the same harness with many spawn calls, few ticks, and purchases
NextCap ==
  \/ SimSpawnZombie(Px(10), MaxCapCalls)
  \/ SimStep(MaxCapSteps)
  \/ \E id \in UpgradeIds : SimPurchase(id)

SpecCap == InitSim /\ [][NextCap]_vars

----------------------------------------------------------------------------
(* The attack harness: one attacker, one target, performAttack called on a *)
(* non-decreasing clock.                                                    *)

ClockSteps == {1, Ms(100), Ms(400)}

TargetXs == {Px(110), Px(300)}

InitAttack ==
  /\ InitGame(freshGame, FALSE, CHOOSE rnd \in BuildDraws : TRUE)
  /\ LoopRunning /\ NoPool
  /\ attacker = Zombie(1, Px(100), 100)
  /\ \E x \in TargetXs, a \in {2, 3}, rnd \in BuildDraws :
       target = Walker(1, x, getCurrentArea(a), rnd)

\* time passes
AttackTick(d) ==
  /\ now + d <= MaxAttackClock
  /\ now' = now + d
  /\ UNCHANGED <<gameVars, isMobile, inputVars, uiVars, walkerVars, zombieVars, mgrVars,
                 lifeVars, atkVars, poolVars, obsVars>>

\* the target moves
AttackMove(x) ==
  /\ target.pos # x
  /\ target' = [target EXCEPT !.pos = x]
  /\ UNCHANGED <<gameVars, hostVars, inputVars, uiVars, walkerVars, zombieVars, mgrVars,
                 lifeVars, attacker, poolVars, obsVars>>

\* attackSystem.performAttack(attacker, target, config, currentTime)
AttackCall ==
  /\ requests < MaxAttackCalls
  /\ requests' = requests + 1
  /\ LET res == performAttack(attacker, target, attackConfig, now)
     IN /\ attacker' = res.attacker
        /\ target' = res.target
        /\ ret' = [op |-> "performAttack", result |-> res.ok, atDamage |-> res.atDamage]
  /\ UNCHANGED <<gameVars, hostVars, inputVars, uiVars, walkerVars, zombieVars, mgrVars,
                 lifeVars, poolVars, frame, tick, clickPaused, handed, released>>

NextAttack ==
  \/ \E d \in ClockSteps : AttackTick(d)
  \/ \E x \in TargetXs : AttackMove(x)
  \/ AttackCall

SpecAttack == InitAttack /\ [][NextAttack]_vars

\* walker.takeDamage(damage), called on the walker itself
DamageCall(damage) ==
  /\ requests < MaxDamageCalls
  /\ requests' = requests + 1
  /\ target' = takeDamage(target, damage)
  /\ ret' = [op |-> "takeDamage", result |-> takeDamageResult(target, damage)]
  /\ UNCHANGED <<gameVars, hostVars, inputVars, uiVars, walkerVars, zombieVars, mgrVars,
                 lifeVars, attacker, poolVars, frame, tick, clickPaused, handed, released>>

InitDamage ==
  /\ InitGame(freshGame, FALSE, CHOOSE rnd \in BuildDraws : TRUE)
  /\ LoopRunning /\ NoPool
  /\ attacker = Zombie(1, Px(100), 100)
  /\ \E a \in {0, 1, 2}, rnd \in BuildDraws :
       target = Walker(1, Px(110), getCurrentArea(a), rnd)

NextDamage ==
  \/ \E d \in {Ms(100), Ms(400)} : AttackTick(d)
  \/ AttackCall
  \/ \E damage \in {1, 2} : DamageCall(damage)

SpecDamage == InitDamage /\ [][NextDamage]_vars

----------------------------------------------------------------------------
(* The crowd harness: the population harness started in a game that has    *)
(* run for four seconds, with MaxCrowd walkers in the field and the         *)
(* performance level below high.                                            *)

\* the i-th walker of the crowd, on its way to the centre of the field
CrowdWalker(i) ==
  LET w == Walker(i, Px(20 + 24 * i), getCurrentArea(0), CHOOSE rnd \in BuildDraws : TRUE)
  IN [setEntityPriority(w, 5) EXCEPT
        !.vel = Sign(w.targetPosition - w.pos) * Vel(w.speed), !.retargetTimer = fixedTimeStep]

\* the draws of a tick of the crowd: Math.random() of shouldSkipUpdate skips
\* nothing, or the entities numbered 5
CrowdDraws ==
  [edge : {-Px(20)}, target : {Px(400)}, size : Sizes, jitter : SpeedJitters,
   interval : RetargetIntervals, skip : {{}, {5}}, stallAt : {0}]

InitCrowd ==
  /\ InitRest(freshGame, FALSE, Ms(4000))
  /\ LoopRunning /\ NoPool
  /\ attacker = Zombie(1, 0, 100)
  /\ target = Walker(1, 0, getCurrentArea(0), CHOOSE rnd \in BuildDraws : TRUE)
  /\ walkers = [i \in 1..MaxCrowd |-> CrowdWalker(i)]
  /\ walkerPool = <<>> /\ nextWalkerId = MaxCrowd + 1
  /\ zombies = <<>>
  /\ zombiePool = initialZombiePool(getZombieSpeedMultiplierPct(noUpgrades))
  /\ nextZombieId = 6
  /\ \E l \in {"medium", "low"} :
       monitor = updateCullingSettings(
                   [initialMonitor EXCEPT !.currentLevel = l, !.entityCount = MaxCrowd])

NextCrowd ==
  \/ SimSpawnZombie(Px(50), MaxCrowdCalls)
  \/ \E rnd \in CrowdDraws : SimStepWith(rnd, MaxCrowdSteps)

SpecCrowd == InitCrowd /\ [][NextCrowd]_vars

----------------------------------------------------------------------------
(* The boundary harness: one entity inside the canvas, ticked by a change  *)
(* of velocity (as a seek or a separation makes), Entity.update and         *)
(* applyBoundaryCollision; beside it a game one second old, in which a     *)
(* zombie at the left wall seeks a walker that has just entered outside   *)
(* of it.                                                                    *)

\* entity sizes: a zombie's, a walker's, one as large as the canvas
BounceSizes == {Px(10), Px(40), canvasWidth}

\* the velocities a tick may set
BounceVelocities == {-Vel(3000), -Vel(60), 0, Vel(60), Vel(3000)}

\* the range applyBoundaryCollision keeps an entity of this size in
InsideCanvas(pos, size) == size \div 2 <= pos /\ pos <= canvasWidth - size \div 2

InitBounce ==
  /\ InitRest(freshGame, FALSE, Ms(1000))
  /\ LoopRunning /\ NoPool
  /\ LET rnd == CHOOSE r \in SimDraws : r.stallAt = 0
         pool == initialWalkerPool(getCurrentArea(0), rnd)
         pct == getZombieSpeedMultiplierPct(noUpgrades)
     IN /\ walkers = <<setEntityPriority(pool[Len(pool)], 5)>>
        /\ walkerPool = SubSeq(pool, 1, Len(pool) - 1)
        /\ zombies = <<setEntityPriority([initialZombiePool(pct)[5] EXCEPT !.pos = Px(5)], 8)>>
        /\ zombiePool = SubSeq(initialZombiePool(pct), 1, 4)
  /\ nextWalkerId = 11 /\ nextZombieId = 6
  /\ monitor = initialMonitor
  /\ target = Walker(1, 0, getCurrentArea(0), CHOOSE rnd \in BuildDraws : TRUE)
  /\ \E size \in BounceSizes :
       \E x \in {size \div 2, size \div 2 + Px(3), Px(400), canvasWidth - size \div 2} :
         /\ InsideCanvas(x, size)
         /\ attacker = [Zombie(1, x, 100) EXCEPT !.size = size]

\* one tick: the velocity is kept or set, the position is integrated over
\* a fixed step, the boundary collision is applied
BounceTick(steer) ==
  /\ requests < MaxBounceTicks
  /\ requests' = requests + 1
  /\ LET e1 == IF steer = <<>> THEN attacker ELSE [attacker EXCEPT !.vel = steer[1]]
         e2 == [e1 EXCEPT !.pos = Integrate(e1.pos, e1.vel, fixedTimeStep)]
     IN /\ attacker' = applyBoundaryCollision(e2, 100)
        /\ ret' = [op |-> "applyBoundaryCollision", moved |-> e2.pos]
  /\ UNCHANGED <<gameVars, hostVars, inputVars, uiVars, walkerVars, zombieVars, mgrVars,
                 lifeVars, target, poolVars, frame, tick, clickPaused, handed, released>>

NextBounce ==
  \/ \E steer \in {<<>>} \cup {<<v>> : v \in BounceVelocities} : BounceTick(steer)
  \/ \E rnd \in {r \in SimDraws : r.stallAt = 0} : SimStepWith(rnd, MaxBounceTicks)

SpecBounce == InitBounce /\ [][NextBounce]_vars

----------------------------------------------------------------------------
(* The separation harness: two overlapping zombies in the middle of the    *)
(* field, ticked by applySeparation and Entity.update alone.               *)

\* the sizes of the pair
SepSizes == {<<Px(10), Px(10)>>, <<Px(10), Px(20)>>}

\* the distances the pair starts at
SepDistances == {1, Px(5), Px(10)}

\* the velocities the pair starts with: at rest, or closing at a zombie's speed
SepVelocities == {<<0, 0>>, <<Vel(60), -Vel(60)>>}

\* the separationForce of the call: the zombie system's, the default
SepForces == {40, 50}

\* minDistance of applySeparation for the pair
minDistance == (zombies[1].size + zombies[2].size) \div 2 + Px(5)

\* the distance of the pair
pairDistance == distanceTo(zombies[1].pos, zombies[2].pos)

InitSep ==
  /\ InitRest(freshGame, FALSE, Ms(1000))
  /\ LoopRunning /\ NoPool
  /\ attacker = Zombie(1, 0, 100)
  /\ target = Walker(1, 0, getCurrentArea(0), CHOOSE rnd \in BuildDraws : TRUE)
  /\ walkers = <<>>
  /\ walkerPool = initialWalkerPool(getCurrentArea(0), CHOOSE rnd \in SimDraws : TRUE)
  /\ nextWalkerId = 11 /\ nextZombieId = 6
  /\ monitor = initialMonitor
  /\ LET pool == initialZombiePool(getZombieSpeedMultiplierPct(noUpgrades))
     IN /\ zombiePool = SubSeq(pool, 1, 3)
        /\ \E size \in SepSizes, d \in SepDistances, v \in SepVelocities :
             zombies = [i \in 1..2 |->
                          [pool[6 - i] EXCEPT !.pos = Px(400) + (i - 1) * d,
                                              !.size = size[i], !.vel = v[i],
                                              !.priority = <<8>>]]

\* one tick: applySeparation on the pair, then Entity.update of each
SepTick(separationForce) ==
  /\ requests < MaxSepTicks
  /\ requests' = requests + 1
  /\ LET separated == applySeparation(zombies, separationForce)
     IN zombies' = [i \in 1..2 |->
                      [separated[i] EXCEPT !.pos = Integrate(@, separated[i].vel, fixedTimeStep)]]
  /\ ret' = [op |-> "applySeparation", separationForce |-> separationForce,
             atRest |-> IF ret.op = "none"
                        THEN zombies[1].vel = 0 /\ zombies[2].vel = 0 ELSE ret.atRest]
  /\ UNCHANGED <<gameVars, hostVars, inputVars, uiVars, walkerVars, zombiePool, nextZombieId,
                 mgrVars, lifeVars, atkVars, poolVars, frame, tick, clickPaused, handed,
                 released>>

\* a harness keeps calling with the force of its first call
NextSep ==
  \E separationForce \in SepForces :
    /\ ret.op = "applySeparation" => ret.separationForce = separationForce
    /\ SepTick(separationForce)

SpecSep == InitSep /\ [][NextSep]_vars /\ WF_vars(NextSep)

\* the pair in the game: whole simulation steps, update(fixedTimeStep), on
\* two zombies in the middle of the field, out of seek range of the edge
\* where the walkers enter
NextPair ==
  \E rnd \in {r \in SimDraws : r.stallAt = 0} : SimStepWith(rnd, MaxPairSteps)

SpecPair == InitSep /\ [][NextPair]_vars

----------------------------------------------------------------------------
(* The choice of a target: one zombie in the middle of the field and three  *)
(* walkers of the live array, some of them defeated, at equal and unequal   *)
(* distances and on the rim of the seek range.                              *)

SeekPositions == {Px(90), Px(100), Px(250), Px(300), Px(350), Px(520)}

\* the ids of the walkers in array order, as passed to updateWithWalkers
WalkerIds == [k \in 1..Len(walkers) |-> walkers[k].id]

InitSeek ==
  /\ InitRest(freshGame, FALSE, Ms(1000))
  /\ LoopRunning /\ NoPool
  /\ attacker = Zombie(1, 0, 100)
  /\ target = Walker(1, 0, getCurrentArea(0), CHOOSE rnd \in BuildDraws : TRUE)
  /\ walkerPool = <<>> /\ nextWalkerId = 4 /\ nextZombieId = 6
  /\ monitor = initialMonitor
  /\ zombiePool = SubSeq(initialZombiePool(100), 1, 4)
  /\ \E x \in [1..3 -> SeekPositions], alive \in [1..3 -> BOOLEAN] :
       walkers = [k \in 1..3 |->
                    LET w == Walker(k, x[k], getCurrentArea(0),
                                    CHOOSE rnd \in BuildDraws : TRUE)
                    IN IF alive[k] THEN w ELSE takeDamage(w, w.health)]
  /\ \E cached \in {<<>>, <<1>>, <<3>>} :
       zombies = <<[initialZombiePool(100)[5] EXCEPT !.pos = Px(300), !.target = cached]>>

\* zombie.updateWithWalkers(fixedTimeStep, walkers)
SeekCall ==
  /\ requests < MaxSeekCalls
  /\ requests' = requests + 1
  /\ zombies' = <<updateWithWalkers(zombies[1], fixedTimeStep, St, WalkerIds)>>
  /\ ret' = [op |-> "updateWithWalkers", from |-> zombies[1].pos,
             cached |-> zombies[1].target]
  /\ UNCHANGED <<gameVars, hostVars, inputVars, uiVars, walkerVars, zombiePool, nextZombieId,
                 mgrVars, lifeVars, atkVars, poolVars, frame, tick, clickPaused, handed,
                 released>>

SpecSeek == InitSeek /\ [][SeekCall]_vars

----------------------------------------------------------------------------
(* The full-field harness: the population harness started in a game that   *)
(* has run for four seconds, one walker short of the target count.          *)

\* the i-th walker of the field, on its way to the centre
FieldWalker(i) ==
  LET w == Walker(i, Px(20 + 19 * i), getCurrentArea(0), CHOOSE rnd \in BuildDraws : TRUE)
  IN [setEntityPriority(w, 5) EXCEPT
        !.vel = Sign(w.targetPosition - w.pos) * Vel(w.speed), !.retargetTimer = fixedTimeStep]

InitFull ==
  /\ InitRest(freshGame, FALSE, Ms(4000))
  /\ LoopRunning /\ NoPool
  /\ attacker = Zombie(1, 0, 100)
  /\ target = Walker(1, 0, getCurrentArea(0), CHOOSE rnd \in BuildDraws : TRUE)
  /\ walkers = [i \in 1..(targetWalkerCount - 1) |-> FieldWalker(i)]
  /\ walkerPool = <<>> /\ nextWalkerId = targetWalkerCount
  /\ zombies = <<>>
  /\ zombiePool = initialZombiePool(getZombieSpeedMultiplierPct(noUpgrades))
  /\ nextZombieId = 6
  /\ monitor = initialMonitor

NextFull ==
  \/ SimSpawnZombie(Px(50), MaxCrowdCalls)
  \/ \E rnd \in {r \in SimDraws : r.stallAt = 0} : SimStepWith(rnd, MaxFullSteps)

SpecFull == InitFull /\ [][NextFull]_vars

----------------------------------------------------------------------------
(* Frames of several steps: one callback whose catch-up loop runs k updates *)
(* finds the host clock at the callback's time in every one of them, while  *)
(* k callbacks of one step each find it one step later each time.           *)

RECURSIVE RunBurst(_, _, _)
\* k iterations of the catch-up loop within one callback
RunBurst(st, k, rnd) ==
  IF k = 0 THEN st
  ELSE LET s == update(st, fixedTimeStep, rnd)
       IN IF s.now >= st.now THEN RunBurst(s, k - 1, rnd) ELSE s

RECURSIVE RunPaced(_, _, _)
\* k callbacks a fixed time step apart, each running one update
RunPaced(st, k, rnd) ==
  IF k = 0 THEN st
  ELSE LET s == update([st EXCEPT !.now = @ + fixedTimeStep], fixedTimeStep, rnd)
       IN IF s.now >= st.now THEN RunPaced(s, k - 1, rnd) ELSE s

\* the steps one callback may have to catch up: one, two, or half a second's
FrameSteps == {1, 2, MaxBurst}

\* the draws of the frames: no stall of the host inside a step
FrameDraw == CHOOSE r \in SimDraws : r.stallAt = 0

\* the combat of a run: the walkers defeated and the successful attacks
Outcome(st) ==
  [defeated |-> st.walkersDefeated,
   victims |-> {st.log.attacks[i][2] : i \in 1..Len(st.log.attacks)},
   attacks |-> [id \in 1..5 |->
                  Cardinality({i \in 1..Len(st.log.attacks) : st.log.attacks[i][1] = id})]]

\* gameLoop with deltaTime = k * fixedTimeStep: k updates at one clock value
BurstFrame(k) ==
  /\ Len(zombies) > 0
  /\ tick.n + k <= MaxBurstSteps
  /\ LET s == RunBurst([St EXCEPT !.now = @ + k * fixedTimeStep], k, FrameDraw)
     IN /\ Install(s)
        /\ tick' = [noTick EXCEPT !.n = tick.n + k, !.deltaTime = k * fixedTimeStep,
                                  !.attacks = s.log.attacks]
  /\ UNCHANGED <<lastTime, accumulator, lastPauseKeyState, pc, lifeVars, atkVars, poolVars,
                 frame, clickPaused, requests>>

\* the full field of walkers; a zombie is placed among them, then frames
NextBurst ==
  \/ SimSpawnZombie(Px(50), MaxCrowdCalls)
  \/ \E k \in FrameSteps : BurstFrame(k)

SpecBurst == InitFull /\ [][NextBurst]_vars

\* the field after zombies have been at work and were cleared: up to two
\* defeated walkers still in the live array, no zombie left
InitRestore ==
  /\ InitRest(freshGame, FALSE, Ms(4000))
  /\ LoopRunning /\ NoPool
  /\ attacker = Zombie(1, 0, 100)
  /\ target = Walker(1, 0, getCurrentArea(0), CHOOSE rnd \in BuildDraws : TRUE)
  /\ \E n \in (targetWalkerCount - 2)..targetWalkerCount, d \in 0..2 :
       walkers = [i \in 1..n |-> IF i <= d THEN takeDamage(FieldWalker(i), 1)
                                           ELSE FieldWalker(i)]
  /\ walkerPool = <<>> /\ nextWalkerId = targetWalkerCount + 1
  /\ zombies = <<>>
  /\ zombiePool = initialZombiePool(getZombieSpeedMultiplierPct(noUpgrades))
  /\ nextZombieId = 6
  /\ monitor = initialMonitor

\* one simulation step, counted: update(fixedTimeStep)
RestoreStep(rnd) ==
  /\ requests < MaxRestoreSteps
  /\ requests' = requests + 1
  /\ LET st == [St EXCEPT !.now = @ + fixedTimeStep]
     IN /\ Install(update(st, fixedTimeStep, rnd))
        /\ tick' = Observe(st, fixedTimeStep, rnd, tick.n + 1)
  /\ UNCHANGED <<lastTime, accumulator, lastPauseKeyState, pc, lifeVars, atkVars, poolVars,
                 frame, clickPaused>>

NextRestore == \E rnd \in {r \in SimDraws : r.stallAt = 0} : RestoreStep(rnd)

\* the game runs unpaused and the loop keeps calling update: the count of
\* executed steps keeps advancing
StepsKeepExecuting == requests < MaxRestoreSteps /\ requests' = requests + 1

SpecRestore == InitRestore /\ [][NextRestore]_vars /\ WF_requests(StepsKeepExecuting)

----------------------------------------------------------------------------
(* The monitor harness: a fresh PerformanceMonitor whose updateMetrics is  *)
(* called first at some time after the page's time origin and then at a    *)
(* steady interval.                                                         *)

\* performance.now() at the first call (ticks)
StartTimes == {0, Ms(500), Ms(1000), Ms(5000)}

\* the steady intervals (ticks): 8.3, 16.7, 25 and 41.7 ms
FrameIntervals == {1, 2, 3, 5}

InitMonitor ==
  /\ \E t \in StartTimes : InitRest(freshGame, FALSE, t)
  /\ LoopRunning /\ NoPool
  /\ attacker = Zombie(1, 0, 100)
  /\ target = Walker(1, 0, getCurrentArea(0), CHOOSE rnd \in BuildDraws : TRUE)
  /\ walkers = <<>>
  /\ walkerPool = initialWalkerPool(getCurrentArea(0), CHOOSE rnd \in BuildDraws : TRUE)
  /\ nextWalkerId = 11
  /\ zombies = <<>>
  /\ zombiePool = initialZombiePool(getZombieSpeedMultiplierPct(noUpgrades))
  /\ nextZombieId = 6
  /\ monitor = initialMonitor @@ initialSampling

\* updateMetrics(currentTime, entityCount, particleCount): the first call at
\* the start time, every later one an interval after the call before
MonitorCall(interval) ==
  /\ requests < MaxMonitorCalls
  /\ ret.op = "updateMetrics" => ret.interval = interval
  /\ requests' = requests + 1
  /\ now' = IF requests = 0 THEN now ELSE now + interval
  /\ monitor' = updateMetricsAt(monitor, now', totalEntities)
  /\ ret' = [op |-> "updateMetrics", interval |-> interval,
             sampled |-> atSamplingBoundary(now', monitor.lastFpsTime),
             before |-> monitor.currentLevel]
  /\ UNCHANGED <<gameVars, isMobile, inputVars, uiVars, walkerVars, zombieVars, souls,
                 walkersDefeated, upgrades, currentArea, lifeVars, atkVars, poolVars,
                 frame, tick, clickPaused, handed, released>>

\* onPerformanceLevelChange(callback), before the first updateMetrics as
\* Game.initializeSystems does
Subscribe ==
  /\ requests = 0
  /\ monitor.subscribers < MaxSubscribers
  /\ monitor' = onPerformanceLevelChange(monitor)
  /\ UNCHANGED <<gameVars, hostVars, inputVars, uiVars, walkerVars, zombieVars, souls,
                 walkersDefeated, upgrades, currentArea, lifeVars, atkVars, poolVars, obsVars>>

NextMonitor ==
  \/ \E interval \in FrameIntervals : MonitorCall(interval)
  \/ Subscribe

SpecMonitor == InitMonitor /\ [][NextMonitor]_vars

\* gameLoop as the monitor sees it: updateFPS(currentTime), which calls
\* updateMetrics, then handlePauseInput; the callbacks come at a steady
\* interval
MonitorFrame(interval) ==
  /\ requests < MaxMonitorCalls
  /\ ret.op = "updateMetrics" => ret.interval = interval
  /\ requests' = requests + 1
  /\ now' = now + interval
  /\ lastTime' = now'
  /\ monitor' = updateMetricsAt(monitor, now', totalEntities)
  /\ LET currentPauseKeyState == "p" \in keys
     IN /\ isPaused' = IF currentPauseKeyState /\ ~lastPauseKeyState
                       THEN togglePause(isPaused) ELSE isPaused
        /\ lastPauseKeyState' = currentPauseKeyState
  /\ ret' = [op |-> "updateMetrics", interval |-> interval,
             sampled |-> atSamplingBoundary(now', monitor.lastFpsTime),
             before |-> monitor.currentLevel]
  /\ UNCHANGED <<accumulator, lastUpgradeKeyState, pc, isMobile, inputVars, uiVars,
                 walkerVars, zombieVars, souls, walkersDefeated, upgrades, currentArea,
                 lifeVars, atkVars, poolVars, frame, tick, clickPaused, handed, released>>

\* the P key is pressed and released during the first frames
NextMonitorPause ==
  \/ \E interval \in FrameIntervals : MonitorFrame(interval)
  \/ Subscribe
  \/ requests < MaxPauseKeyFrame /\ KeyDown("p")
  \/ requests < MaxPauseKeyFrame /\ KeyUp("p")

SpecMonitorPause == InitMonitor /\ [][NextMonitorPause]_vars

----------------------------------------------------------------------------
(* The culling harness: cullEntities applied to a list of entities under a *)
(* state of the performance monitor.                                        *)

Levels == {"high", "medium", "low"}

\* the states of the monitor: a fresh one, or one whose level was set by
\* updatePerformanceLevel, with the entity count of the last updateMetrics
MonitorStates ==
  LET counts == {0, 31, 51, 81}
  IN {[initialMonitor EXCEPT !.entityCount = c] : c \in counts}
     \cup {updateCullingSettings([initialMonitor EXCEPT !.currentLevel = l, !.entityCount = c]) :
             l \in Levels, c \in counts}

\* an entity as the culler sees it
CullableEntity(id, x, active) == [id |-> id, active |-> active, pos |-> x, priority |-> <<>>]

\* lists of up to MaxCullList entities at the centre, near the left edge or
\* outside the viewport, and two crowds above the lowest cap
EntityLists ==
  LET places == {Px(400), Px(10), -Px(60)}
      short(n) == {[i \in 1..n |-> CullableEntity(i, f[i][1], f[i][2])] :
                     f \in [1..n -> places \X BOOLEAN]}
  IN UNION {short(n) : n \in 0..MaxCullList}
     \cup {[i \in 1..MaxCrowd |-> CullableEntity(i, Px(10 * i), TRUE)],
           [i \in 1..MaxCrowd |-> CullableEntity(i, Px(10 * i), i # 1)]}

InitCullFn ==
  /\ InitRest(freshGame, FALSE, 0)
  /\ LoopRunning /\ NoPool
  /\ attacker = Zombie(1, 0, 100)
  /\ target = Walker(1, 0, getCurrentArea(0), CHOOSE rnd \in BuildDraws : TRUE)
  /\ walkerPool = <<>> /\ nextWalkerId = 1
  /\ zombies = <<>> /\ zombiePool = <<>> /\ nextZombieId = 1
  /\ monitor \in MonitorStates
  /\ walkers \in EntityLists

\* entityCuller.cullEntities(entities, width, height, maxEntities)
CullCall(maxEntities) ==
  /\ ret.op = "none"
  /\ ret' = [op |-> "cullEntities", maxEntities |-> maxEntities,
             result |-> cullEntitiesWith(monitor, walkers, maxEntities)]
  /\ UNCHANGED <<gameVars, hostVars, inputVars, uiVars, walkerVars, zombieVars, mgrVars,
                 lifeVars, atkVars, poolVars, frame, tick, clickPaused, requests, handed,
                 released>>

NextCullFn == \E maxEntities \in {<<>>, <<0>>, <<1>>, <<2>>} : CullCall(maxEntities)

SpecCullFn == InitCullFn /\ [][NextCullFn]_vars

----------------------------------------------------------------------------
(* The ObjectPool harness: one pool of plain instances, a client that gets, *)
(* uses and releases them.  An instance is its identity and whether it has *)
(* been used since it was created or reset.                                 *)

\* the harness's createFn and resetFn
createInstance(i) == [id |-> i, dirty |-> FALSE]
resetInstance(obj) == [obj EXCEPT !.dirty = FALSE]

\* an instance the pool never handed out
foreignInstance == [id |-> 0, dirty |-> TRUE]

InitPool ==
  /\ InitGame(freshGame, FALSE, CHOOSE rnd \in BuildDraws : TRUE)
  /\ LoopRunning
  /\ attacker = Zombie(1, 0, 100)
  /\ target = Walker(1, 0, getCurrentArea(0), CHOOSE rnd \in BuildDraws : TRUE)
  /\ \E size \in 0..MaxPoolSize, initialSize \in 0..MaxPoolSize :
       /\ initialSize <= size
       /\ objMaxSize = size
       /\ objPool = ObjectPool([i \in 1..initialSize |-> createInstance(i)], initialSize)
       /\ objCreated = initialSize
  /\ held = {}

\* pool.get()
PoolGetCall ==
  /\ requests < MaxPoolCalls
  /\ requests' = requests + 1
  /\ LET got == PoolGet(objPool, createInstance(objCreated + 1))
     IN /\ objPool' = got.pool
        /\ objCreated' = IF got.fresh THEN objCreated + 1 ELSE objCreated
        /\ held' = held \cup {got.obj}
        /\ ret' = [op |-> "get", result |-> got.obj]
  /\ UNCHANGED <<gameVars, hostVars, inputVars, uiVars, walkerVars, zombieVars, mgrVars,
                 lifeVars, atkVars, objMaxSize, frame, tick, clickPaused, handed, released>>

\* the client uses an instance it holds
PoolUse(obj) ==
  /\ obj \in held /\ ~obj.dirty
  /\ held' = (held \ {obj}) \cup {[obj EXCEPT !.dirty = TRUE]}
  /\ UNCHANGED <<gameVars, hostVars, inputVars, uiVars, walkerVars, zombieVars, mgrVars,
                 lifeVars, atkVars, objPool, objMaxSize, objCreated, obsVars>>

\* pool.release(obj)
PoolReleaseCall(obj) ==
  /\ requests < MaxPoolCalls
  /\ requests' = requests + 1
  /\ objPool' = PoolRelease(objPool, resetInstance(obj), objMaxSize)
  /\ held' = held \ {obj}
  /\ ret' = [op |-> "release",
             result |-> PoolReleased(objPool, obj, resetInstance(obj), objMaxSize)]
  /\ UNCHANGED <<gameVars, hostVars, inputVars, uiVars, walkerVars, zombieVars, mgrVars,
                 lifeVars, atkVars, objMaxSize, objCreated, frame, tick, clickPaused,
                 handed, released>>

NextPool ==
  \/ PoolGetCall
  \/ \E obj \in held : PoolUse(obj)
  \/ \E obj \in held \cup {foreignInstance} : PoolReleaseCall(obj)

SpecPool == InitPool /\ [][NextPool]_vars

----------------------------------------------------------------------------
(* Properties of the game loop (Spec) *)

\* a step of a gameLoop callback whose pause servicing left the game paused
PausedFrameStep == frame'.paused /\ (pc # "idle" \/ pc' # "idle")

\* C1: a gameLoop frame delivered while the game is paused runs no simulation
\* step and leaves the accumulator, the walker and zombie arrays (positions,
\* velocities, health) and both pools unchanged, whatever time has passed.
C1_PauseInvariance ==
  [][PausedFrameStep =>
       /\ UNCHANGED <<accumulator, walkers, zombies, walkerPool, zombiePool>>
       /\ tick' = tick
       /\ frame'.steps = 0
       /\ frame'.totalSteps = frame.totalSteps]_vars

\* a paused frame has ended with walkers and zombies in the field
C1_Witness ==
  /\ pc = "idle" /\ frame.done /\ frame.paused /\ isPaused
  /\ Len(walkers) > 0 /\ Len(zombies) > 0

\* C2: a frame that starts with one pause-toggle input pending (a P key press
\* edge, or a tap on the mobile pause button that MobileUI would accept) ends
\* with isPaused flipped, whether the game was running or paused.
C2_ToggleServiced ==
  (pc = "idle" /\ frame.done /\ frame.keyEdge # frame.tapPending)
    => isPaused # frame.pausedAtStart

\* C3: no frame runs more than 5 simulation steps.
C3_CatchUpClamp == frame.steps <= 5

\* C4: between frames, steps executed * fixedTimeStep + accumulator is the
\* unpaused time elapsed, the accumulator is within [0, fixedTimeStep), and
\* every step ran with deltaTime = fixedTimeStep; so the number of steps
\* depends on the elapsed unpaused time only, not on how it was cut into frames.
C4_FixedStep ==
  /\ pc = "idle" =>
       /\ frame.totalSteps * fixedTimeStep + accumulator = frame.unpausedElapsed
       /\ 0 <= accumulator /\ accumulator < fixedTimeStep
  /\ tick.n > 0 => tick.deltaTime = fixedTimeStep

\* several steps have run, time was spent paused, and a remainder is carried
C4_Witness ==
  /\ pc = "idle" /\ frame.done /\ frame.totalSteps >= 3
  /\ accumulator > 0 /\ frame.unpausedElapsed < now

\* C5: no zombie is added for a click that reached the InputManager while
\* the game was paused.
C5_NoSpawnFromPausedClick ==
  [][Len(zombies') > Len(zombies) => ~(mouseJustPressed /\ clickPaused)]_vars

----------------------------------------------------------------------------
(* Properties of the population (SpecCap, SpecSim) *)

\* C6: the population never exceeds 10 + 5 * level of max-zombies; a
\* spawnZombie call at or above the cap returns false and leaves the
\* population and the zombie pool unchanged, and below the cap it returns true
\* and appends exactly one zombie.
C6_ZombieCap ==
  [][/\ Len(zombies') <= 10 + 5 * upgrades'["max-zombies"]
     /\ requests' = requests + 1 =>
          IF Len(zombies) >= 10 + 5 * upgrades["max-zombies"]
          THEN ~ret'.result /\ UNCHANGED <<zombies, zombiePool>>
          ELSE /\ ret'.result
               /\ Len(zombies') = Len(zombies) + 1
               /\ SubSeq(zombies', 1, Len(zombies)) = zombies]_vars

\* a spawn was rejected at the cap of 10 after the population ticked
C6_Witness ==
  /\ ret.op = "spawnZombie" /\ ~ret.result
  /\ Len(zombies) = 10 /\ tick.n > 0

\* C7: in every tick, the walkers that went from active to inactive are
\* exactly the walkers awardSouls(1, soulMultiplier of the current area) was
\* called for, once each; walkersDefeated grows by their number, souls by
\* their number times the multiplier, and the defeat callback runs once each.
C7_RewardOnce ==
  tick.n > 0 =>
    /\ Len(tick.awards) = Cardinality(tick.deaths)
    /\ {tick.awards[i][1] : i \in 1..Len(tick.awards)} = tick.deaths
    /\ \A i \in 1..Len(tick.awards) :
         tick.awards[i][2] = getCurrentArea(tick.area).soulMultiplier
    /\ tick.callbacks = Cardinality(tick.deaths)
    /\ tick.defeatedGained = Cardinality(tick.deaths)
    /\ tick.soulsGained =
         Cardinality(tick.deaths) * getCurrentArea(tick.area).soulMultiplier

\* two zombies hit the same walker in one tick and it was defeated
C7_Witness ==
  /\ tick.deaths # {}
  /\ \E i, j \in 1..Len(tick.attacks) :
       /\ i # j
       /\ tick.attacks[i][2] = tick.attacks[j][2]
       /\ tick.attacks[i][2] \in tick.deaths

\* C8: every active walker of the population has 0 < health <= maxHealth.
C8_WalkerHealth ==
  \A i \in 1..Len(walkers) :
    walkers[i].active => 0 < walkers[i].health /\ walkers[i].health <= walkers[i].maxHealth

\* C10: in every tick, no zombie attacks successfully more than once.
C10_OneAttackPerTick ==
  \A i, j \in 1..Len(tick.attacks) :
    i # j => tick.attacks[i][1] # tick.attacks[j][1]

\* the attack range of a zombie on a walker
InAttackRange(z, w) ==
  distanceTo(z.pos, w.pos) <= Px(5) + (z.size + w.size) \div 2

\* a zombie attacked in a tick that left two walkers within its attack range
C10_Witness ==
  \E k \in 1..Len(tick.attacks), zi \in 1..Len(zombies) :
    /\ zombies[zi].id = tick.attacks[k][1]
    /\ Cardinality({wi \in 1..Len(walkers) : InAttackRange(zombies[zi], walkers[wi])}) >= 2

----------------------------------------------------------------------------
(* Properties of the attack system (SpecAttack) *)

\* C9: a performAttack call made less than the cooldown (500 ms) after the
\* attacker's last successful attack returns false and leaves the target's
\* health and lastAttackTime unchanged; a call at or after the cooldown on an
\* active target in range succeeds; a successful call records its time, so
\* that two successful calls are at least the cooldown apart.
C9_CooldownGating ==
  [][requests' = requests + 1 =>
       LET last == attacker.lastAttackTime
           cooling == last # <<>> /\ now - last[1] < Ms(500)
       IN /\ cooling => /\ ~ret'.result
                        /\ target'.health = target.health
                        /\ attacker'.lastAttackTime = last
          /\ (~cooling /\ attacker.active /\ target.active /\ InAttackRange(attacker, target))
               => /\ ret'.result
                  /\ target'.health = target.health - 1
          /\ ret'.result => /\ attacker'.lastAttackTime = <<now>>
                            /\ (last # <<>> => now - last[1] >= Ms(500))]_vars

\* three calls, two of them successful, the second at or after the cooldown
C9_Witness ==
  /\ requests >= 3 /\ ret.op = "performAttack" /\ ret.result
  /\ target.maxHealth - target.health = 2
  /\ attacker.lastAttackTime # <<>> /\ attacker.lastAttackTime[1] >= Ms(500)

----------------------------------------------------------------------------
(* Properties of the object pool (SpecPool) *)

\* C11: the pool size stays within [0, maxSize]; get() on a non-empty pool
\* removes and returns the pooled instance on top without a createFn call,
\* get() on an empty pool returns a new instance of createFn and leaves the
\* size at 0; release() on a pool below maxSize resets the instance and makes
\* it the top of the pool, one larger, and release() on a full pool leaves the
\* pool, and the instance, unchanged.
C11_PoolConservation ==
  [][/\ Len(objPool') <= objMaxSize
     /\ (requests' = requests + 1 /\ ret'.op = "get") =>
          IF Len(objPool) > 0
          THEN /\ ret'.result = objPool[Len(objPool)]
               /\ objPool' = SubSeq(objPool, 1, Len(objPool) - 1)
               /\ objCreated' = objCreated
          ELSE /\ ret'.result = createInstance(objCreated + 1)
               /\ objCreated' = objCreated + 1
               /\ Len(objPool') = 0
     /\ (requests' = requests + 1 /\ ret'.op = "release") =>
          IF Len(objPool) < objMaxSize
          THEN /\ Len(objPool') = Len(objPool) + 1
               /\ SubSeq(objPool', 1, Len(objPool)) = objPool
               /\ ~objPool'[Len(objPool')].dirty
               /\ objPool'[Len(objPool')] = ret'.result
          ELSE /\ objPool' = objPool
               /\ ret'.result \in held \cup {foreignInstance}]_vars

\* a used instance was released to a full pool and dropped as it was, after
\* get() had to create instances
C11_Witness ==
  /\ ret.op = "release" /\ ret.result.dirty
  /\ objMaxSize > 0 /\ Len(objPool) = objMaxSize
  /\ objCreated > objMaxSize

----------------------------------------------------------------------------
(* Properties of the pools of the population (SpecSim) *)

\* the identities of the instances of an array
IdsOf(es) == {es[i].id : i \in 1..Len(es)}

\* no instance twice in an array
NoDuplicates(es) == \A i, j \in 1..Len(es) : i # j => es[i].id # es[j].id

\* C12: after every update, spawn and clear, no walker or zombie instance is
\* both in its pool and in the live array, and no instance is in a pool (or
\* in the live array) twice; so the instance get() would hand out is not live.
C12_NoAliasing ==
  /\ IdsOf(walkerPool) \cap IdsOf(walkers) = {}
  /\ IdsOf(zombiePool) \cap IdsOf(zombies) = {}
  /\ NoDuplicates(walkerPool) /\ NoDuplicates(zombiePool)
  /\ NoDuplicates(walkers) /\ NoDuplicates(zombies)

\* a walker released by update lies in its pool, and a zombie released by
\* clear has been spawned again and is live
C12_Witness ==
  /\ \E i \in 1..Len(walkerPool) : <<"walker", walkerPool[i].id>> \in released
  /\ \E i \in 1..Len(zombies) : <<"zombie", zombies[i].id>> \in released
  /\ tick.n > 0 /\ ret.op = "spawnZombie"

\* the instances the last operation got from a pool that had been released
Reused(kind) ==
  {handed[k].obj : k \in {j \in 1..Len(handed) :
                            /\ handed[j].kind = kind /\ ~handed[j].fresh
                            /\ <<kind, handed[j].obj.id>> \in released}}

\* C13 as stated: every walker or zombie instance that get() returns after
\* it was released has position (0,0), velocity (0,0) and active = true at
\* the moment of reuse.
C13_ResetInvariants ==
  \A e \in Reused("walker") \cup Reused("zombie") : e.pos = 0 /\ e.vel = 0 /\ e.active

\* C13 amended: a reused zombie has position (0,0), velocity (0,0) and
\* active = true; a reused walker has velocity (0,0), active = true and the
\* edge position its resetFn drew, 20 px outside the canvas.
C13_ResetPerKind ==
  /\ \A z \in Reused("zombie") : z.pos = 0 /\ z.vel = 0 /\ z.active
  /\ \A w \in Reused("walker") : w.pos \in EdgeXs /\ w.vel = 0 /\ w.active

\* a released walker has just been handed out again, and a zombie released
\* by clear is live again
C13_Witness ==
  /\ Reused("walker") # {}
  /\ \E i \in 1..Len(zombies) : <<"zombie", zombies[i].id>> \in released

----------------------------------------------------------------------------
(* Properties of the entity culler (SpecCullFn) *)

\* C14: cullEntities returns at most max(maxCount, cap of the monitor)
\* entities, and when the active entities number at most the effective cap
\* (maxCount when given, else the monitor's cap) it returns exactly the
\* active entities.
C14_CullBound ==
  ret.op = "cullEntities" =>
    LET given == ret.maxEntities # <<>> /\ ret.maxEntities[1] # 0
        maxCount == IF given THEN ret.maxEntities[1] ELSE 0
        cap == monitor.maxEntitiesBeforeCulling
        effective == IF given THEN maxCount ELSE cap
        activeEntities == SelectSeq(walkers, LAMBDA e : e.active)
    IN /\ Len(ret.result) <= Max(maxCount, cap)
       /\ Len(activeEntities) <= effective => ret.result = activeEntities

----------------------------------------------------------------------------
(* Properties of the population under culling (SpecCrowd) *)

\* C15: a walker or zombie that is active when an update starts, or that the
\* update spawns, is in the live array after it and not in the pool, culled
\* and update-skipped or not; what an update removes and releases was
\* inactive when it started.
C15_CullingKeepsPopulation ==
  [][tick'.n = tick.n + 1 =>
       /\ \A i \in 1..Len(walkers) :
            walkers[i].active =>
              /\ walkers[i].id \in IdsOf(walkers')
              /\ walkers[i].id \notin IdsOf(walkerPool')
              /\ <<"walker", walkers[i].id>> \notin tick'.released
       /\ \A i \in 1..Len(zombies) :
            zombies[i].active =>
              /\ zombies[i].id \in IdsOf(zombies')
              /\ zombies[i].id \notin IdsOf(zombiePool')
              /\ <<"zombie", zombies[i].id>> \notin tick'.released
       /\ \A k \in 1..Len(handed') :
            handed'[k].obj.id \in
              IdsOf(IF handed'[k].kind = "walker" THEN walkers' ELSE zombies')
       /\ Len(walkers') >= Len(SelectSeq(walkers, LAMBDA w : w.active))
       /\ Len(zombies') >= Len(SelectSeq(zombies, LAMBDA z : z.active))]_vars

\* a tick at level low left one walker out by culling and another by update
\* skipping, and removed a defeated walker
C15_Witness ==
  /\ monitor.currentLevel = "low"
  /\ \E e \in tick.idle : e[1] = "walker" /\ e[3] = "culled"
  /\ \E e \in tick.idle : e[3] = "skipped"
  /\ \E e \in tick.released : e[1] = "walker"

----------------------------------------------------------------------------
(* The target of a zombie (SpecSim) *)

\* C16: between simulation steps the target of every active zombie is null
\* or a walker of the live array that is active and within seekRange of the
\* zombie.
C16_TargetInvariant ==
  \A i \in 1..Len(zombies) :
    zombies[i].active /\ zombies[i].target # <<>> =>
      \E k \in 1..Len(walkers) :
        /\ walkers[k].id = zombies[i].target[1]
        /\ walkers[k].active
        /\ distanceTo(zombies[i].pos, walkers[k].pos) <= seekRange

----------------------------------------------------------------------------
(* The order of a simulation step (Spec) *)

\* the phases of a step in their order: the walker tick, the zombie tick,
\* the separation pass when there is more than one zombie, the boundary pass
StepPhases(order) ==
  \/ order = <<"walker", "zombie", "boundary">>
  \/ order = <<"walker", "zombie", "separation", "boundary">>

\* C17: a simulation step runs the walker tick, then the zombie tick, then
\* the separation and boundary passes, and then the metrics of the step are
\* reported to the PerformanceMonitor: when a step starts, every step before
\* it has been followed by a report (frame.reported counts the steps done
\* at the last updateMetrics).
C17_StepOrder ==
  [][frame'.totalSteps = frame.totalSteps + 1 =>
       /\ StepPhases(tick'.order)
       /\ frame.reported = frame.totalSteps]_vars

----------------------------------------------------------------------------
(* The stop of the loop (SpecLife) *)

----------------------------------------------------------------------------
(* Boundary containment (SpecBounce) *)

\* C19: an active entity that starts with its position in
\* [size/2, width - size/2] has its position there after every
\* applyBoundaryCollision that follows an integration of its position; so
\* has every active zombie after every ZombieSystem.update.
C19_BoundaryContainment ==
  /\ attacker.active => InsideCanvas(attacker.pos, attacker.size)
  /\ \A i \in 1..Len(zombies) :
       zombies[i].active => InsideCanvas(zombies[i].pos, zombies[i].size)

\* the integration carried the entity out of the canvas on the left and
\* applyBoundaryCollision put it back on the boundary; a zombie seeking a
\* walker beyond the left wall has been kept on the boundary by an update
C19_Witness ==
  /\ ret.op = "applyBoundaryCollision"
  /\ ret.moved < attacker.size \div 2
  /\ attacker.pos = attacker.size \div 2
  /\ attacker.size < canvasWidth
  /\ tick.n = 1
  /\ \E i \in 1..Len(zombies) :
       /\ zombies[i].active /\ zombies[i].target # <<>>
       /\ zombies[i].pos = zombies[i].size \div 2

----------------------------------------------------------------------------
(* Separation of an overlapping pair (SpecSep) *)

\* the pair no longer overlaps
Separated == pairDistance >= minDistance

\* C20 as stated: from any overlapping start with 0 < d < minDistance the
\* distance never decreases from one tick to the next, and it reaches
\* minDistance within the ticks of the harness.
C20_SeparationConvergence ==
  /\ [][pairDistance' >= pairDistance]_vars
  /\ <>Separated

\* C20 for a pair that starts at rest: the distance never decreases from
\* one tick to the next, and it reaches minDistance within the ticks of the
\* harness.
C20_SeparationFromRest ==
  /\ [][ret'.op = "applySeparation" /\ ret'.atRest => pairDistance' >= pairDistance]_vars
  /\ [](ret.op = "applySeparation" /\ ret.atRest => <>Separated)

\* a pair that started at rest has been pushed apart to minDistance, each
\* of the two moving away from the other
C20_Witness ==
  /\ ret.op = "applySeparation" /\ ret.atRest
  /\ requests > 1
  /\ Separated
  /\ zombies[1].vel < 0 /\ zombies[2].vel > 0

----------------------------------------------------------------------------
(* The speed of the zombies (SpecCap) *)

\* C21: every zombie of the live population, constructed for its spawn or
\* taken from the pool, has speed = baseSpeed * (1 + 0.2 * level) for the
\* current level of the zombie-speed upgrade.
C21_SpeedFollowsUpgrade ==
  \A i \in 1..Len(zombies) :
    zombies[i].speed * 100 = zombies[i].baseSpeed * getZombieSpeedMultiplierPct(upgrades)

----------------------------------------------------------------------------
(* The stats of a spawned walker (SpecSim) *)

\* C22: every walker spawnWalker adds to the population, constructed for
\* the spawn, pre-populated or recycled, has at its spawn
\* health = maxHealth = walkerHealth and baseSpeed = walkerSpeed of the area
\* current at that moment.
C22_WalkerStatsOfArea ==
  \A k \in 1..Len(handed) :
    handed[k].kind = "walker" =>
      LET area == getCurrentArea(currentArea)
      IN /\ handed[k].obj.health = area.walkerHealth
         /\ handed[k].obj.maxHealth = area.walkerHealth
         /\ handed[k].obj.baseSpeed = area.walkerSpeed

----------------------------------------------------------------------------
(* The walker population (SpecFull) *)

\* the walkers a step spawned
SpawnedWalkers(gets) == Len(SelectSeq(gets, LAMBDA g : g.kind = "walker"))

\* C23: the walker population never exceeds the target count 40; an update
\* spawns at most one walker, only with the population below 40 and the
\* spawn timer, which the update advances by its deltaTime, at 100 ms or
\* more, and the spawn resets the timer to 0.
C23_PopulationCadence ==
  /\ [](Len(walkers) <= targetWalkerCount)
  /\ [][tick'.n = tick.n + 1 =>
         /\ SpawnedWalkers(handed') <= 1
         /\ SpawnedWalkers(handed') = 1 =>
              /\ Len(walkers) < targetWalkerCount
              /\ spawnTimer + tick'.deltaTime >= spawnInterval
              /\ spawnTimer' = 0
         /\ SpawnedWalkers(handed') = 0 => spawnTimer' = spawnTimer + tick'.deltaTime]_vars

\* the population stands at 40 after a spawn, and the timer has run past
\* 100 ms again without another spawn
C23_Witness ==
  /\ Len(walkers) = targetWalkerCount
  /\ nextWalkerId > targetWalkerCount
  /\ spawnTimer >= spawnInterval
  /\ tick.n > 0

----------------------------------------------------------------------------
(* The response to a zombie next to a walker (SpecCrowd) *)

\* zombie z, off cooldown, and walker w, which one attack defeats, are active
\* and within attack range at the time t
ReadyPair(z, w, t) ==
  /\ canAttack(z, w, attackConfig, t)
  /\ w.health <= attackConfig.damage

\* walker wi is the only active walker within attack range of zombie zi
OnlyWalkerInRange(zi, wi) ==
  \A wj \in 1..Len(walkers) :
    wj # wi => ~canAttackNoCooldown(zombies[zi], walkers[wj], attackConfig, now)

\* C24: if a simulation step starts with an active zombie off cooldown and
\* an active walker of health at most the zombie's damage within attack
\* range (and no other walker there for the zombie to attack instead), then
\* after the step that walker is inactive, souls have grown by the soul
\* multiplier of the current area and walkersDefeated by 1, at every
\* performance level.
C24_DefeatResponse ==
  [][tick'.n = tick.n + 1 =>
       \A zi \in 1..Len(zombies), wi \in 1..Len(walkers) :
         ReadyPair(zombies[zi], walkers[wi], now) /\ OnlyWalkerInRange(zi, wi) =>
           /\ \A k \in 1..Len(walkers') :
                walkers'[k].id = walkers[wi].id => ~walkers'[k].active
           /\ souls' >= souls + getCurrentArea(currentArea').soulMultiplier
           /\ walkersDefeated' >= walkersDefeated + 1]_vars

----------------------------------------------------------------------------
(* The performance level (SpecMonitor) *)

\* C25: with updateMetrics called at a steady interval of at most 20 ms
\* from its first call on, whatever the timestamp of the first call, the
\* level is HIGH after every call.
C25_SteadyRateIsHigh ==
  ret.op = "updateMetrics" /\ ret.interval * 1000 <= 20 * 120 =>
    monitor.currentLevel = "high"


\* the level and the settings that go with it
LevelSettings(m) ==
  <<m.currentLevel, m.cullingEnabled, m.maxEntitiesBeforeCulling, m.maxParticlesBeforeCulling>>

\* C26: the performance level, cullingEnabled and the entity and particle
\* caps change only in an updateMetrics call with
\* currentTime - lastFpsTime >= 1000; every other call and operation leaves
\* them as they are.
C26_ChangeOnlyAtBoundary ==
  [][LevelSettings(monitor') # LevelSettings(monitor) =>
       /\ ret'.op = "updateMetrics" /\ requests' = requests + 1
       /\ now' - monitor.lastFpsTime >= Ms(1000)]_vars

\* an updateMetrics call after the first, at a sampling boundary, has
\* changed the level
C26_Witness ==
  /\ ret.op = "updateMetrics" /\ requests > 1
  /\ ret.sampled /\ ret.before # monitor.currentLevel

\* C27: an updateMetrics call that changes the level calls every registered
\* subscriber exactly once, in the order of registration, with the new
\* level and with the culling settings of that level in force; a call that
\* leaves the level as it was, at a sampling boundary or not, calls none.
C27_EdgeTriggered ==
  [][ret'.op = "updateMetrics" /\ requests' = requests + 1 =>
       monitor'.notified =
         IF monitor'.currentLevel # monitor.currentLevel
         THEN [k \in 1..monitor.subscribers |->
                 [subscriber |-> k, level |-> monitor'.currentLevel,
                  cullingEnabled |-> monitor'.cullingEnabled,
                  maxEntities |-> monitor'.maxEntitiesBeforeCulling]]
         ELSE <<>>]_vars

\* two subscribers have been called for a change of level at a sampling
\* boundary
C27_Witness ==
  /\ ret.op = "updateMetrics" /\ ret.sampled
  /\ ret.before # monitor.currentLevel
  /\ Len(monitor.notified) = MaxSubscribers
  /\ requests > 1


\* the settings updateCullingSettings defines for a level
SettingsOf(level) ==
  IF level = "high" THEN <<FALSE, 80, 150>>
  ELSE IF level = "medium" THEN <<TRUE, 50, 75>>
  ELSE <<TRUE, 30, 40>>

\* C28: in every state of the PerformanceMonitor, the initial one included,
\* cullingEnabled is false iff the level is HIGH and the entity and
\* particle caps are those of the current level: HIGH 80/150, MEDIUM 50/75,
\* LOW 30/40.
C28_SettingsOfLevel ==
  <<monitor.cullingEnabled, monitor.maxEntitiesBeforeCulling,
    monitor.maxParticlesBeforeCulling>> = SettingsOf(monitor.currentLevel)

\* C29: time that passes while the game is paused is never added to the
\* accumulator: a callback that leaves the game paused leaves the accumulator
\* as it was; the callback that resumes adds only the time since the previous
\* callback (lastTime is refreshed by every callback, paused or not) to the
\* accumulator held during the pause, and runs exactly as many steps as that
\* sum holds fixed time steps, whatever the length of the pause.
C29_ResumeWithoutJump ==
  [][/\ pc = "idle" /\ pc' # "idle"
        => /\ lastTime = now /\ lastTime' = now'
           /\ isPaused' => accumulator' = accumulator
           /\ isPaused /\ ~isPaused'
                => /\ accumulator' = accumulator + (now' - now)
                   /\ frame'.budget = accumulator'
     /\ pc = "render" /\ pc' = "idle" /\ frame.pausedAtStart /\ ~frame.paused
        => /\ frame.steps = frame.budget \div fixedTimeStep
           /\ accumulator = frame.budget % fixedTimeStep]_vars

\* a pause that lasted longer than the resuming frame's own interval, ended
\* by a callback that ran a step
C29_Witness ==
  /\ frame.done /\ frame.pausedAtStart /\ ~frame.paused
  /\ frame.steps >= 1
  /\ now - frame.unpausedElapsed > frame.budget

\* C30: during play the current area never decreases; after a step, whose
\* update begins with checkAreaProgression, the area is at least the highest
\* area unlocked by the defeats counted when the check ran; and an area is
\* entered only when the defeats have reached its unlock requirement.
C30_AreaProgression ==
  [][/\ currentArea' >= currentArea
     /\ tick'.n # tick.n => currentArea' >= getHighestUnlockedArea(walkersDefeated)
     /\ currentArea' # currentArea
          => walkersDefeated >= getCurrentArea(currentArea').unlockRequirement]_vars

\* the twenty-fifth defeat was counted in play and the check of a later step
\* entered the second area (no saved game starts there with so few defeats)
C30_Witness ==
  /\ tick.n >= 2 /\ tick.area = 1 /\ currentArea = 1
  /\ walkersDefeated >= 25 /\ walkersDefeated < 99

\* C31: no simulation step starts while paused: whenever an update of the
\* catch-up loop begins, isPaused is false, also when an earlier step of the
\* same callback has toggled the pause.
C31_NoStepWhilePaused ==
  [][frame'.totalSteps # frame.totalSteps => ~isPaused]_vars

\* C32: takeDamage on a walker that is already inactive leaves its health
\* unchanged and does not report a defeat again.
C32_InactiveNotDamaged ==
  [][requests' # requests /\ ret'.op = "takeDamage" /\ ~target.active
       => target'.health = target.health /\ ~ret'.result]_vars

\* C33: a zombie attacks only its chosen target: the walker damaged by a
\* successful attack of a tick is the target the zombie selected in that tick.
C33_AttacksOwnTarget ==
  [][tick'.n # tick.n =>
       \A k \in 1..Len(tick'.attacks), i \in 1..Len(zombies') :
         zombies'[i].id = tick'.attacks[k][1]
           => zombies'[i].target = <<tick'.attacks[k][2]>>]_vars

\* the walkers of the array that are active and within seekRange of x
InSeekRange(x) ==
  {k \in 1..Len(walkers) : walkers[k].active /\ distanceTo(x, walkers[k].pos) <= seekRange}

\* C34: after updateWithWalkers of an active zombie its target is null iff no
\* active walker of the list is within seekRange of the position it had
\* before moving; otherwise it is an active walker at minimal distance among
\* those in range, the first in list order on ties (so a cached target that
\* is inactive is never kept); with no target the velocity is zero.
C34_NearestTarget ==
  [][requests' # requests /\ zombies[1].active =>
       LET z == zombies[1]
           after == zombies'[1]
           near == InSeekRange(z.pos)
       IN /\ after.target = <<>> <=> near = {}
          /\ near # {} =>
                \E k \in near :
                  /\ after.target = <<walkers[k].id>>
                  /\ \A j \in near :
                        /\ distanceTo(z.pos, walkers[k].pos) <= distanceTo(z.pos, walkers[j].pos)
                        /\ distanceTo(z.pos, walkers[k].pos) = distanceTo(z.pos, walkers[j].pos)
                             => k <= j
          /\ after.target = <<>> => after.vel = 0]_vars

\* a call that replaced a cached, defeated target by the first of two
\* walkers at the same distance on either side
C34_Witness ==
  /\ ret.op = "updateWithWalkers" /\ requests = 1
  /\ ret.cached = <<1>>
  /\ ~walkers[1].active /\ walkers[2].active /\ walkers[3].active
  /\ distanceTo(ret.from, walkers[1].pos) = 0
  /\ walkers[2].pos = Px(350) /\ walkers[3].pos = Px(250) /\ ret.from = Px(300)
  /\ zombies[1].target = <<2>>

LiveWalkers == {k \in 1..Len(walkers) : walkers[k].active}

\* C36: while steps keep executing and no walker is defeated, a population
\* below the target eventually reaches the target of 40 active walkers, and
\* every defeated walker of the live array is eventually out of the array
\* and in the pool.
C36_PopulationRestored ==
  /\ (Cardinality(LiveWalkers) < targetWalkerCount)
       ~> (Len(walkers) = targetWalkerCount /\ Cardinality(LiveWalkers) = targetWalkerCount)
  /\ \A id \in 1..2 :
       (\E k \in 1..Len(walkers) : walkers[k].id = id /\ ~walkers[k].active)
         ~> /\ \A k \in 1..Len(walkers) : walkers[k].id # id
            /\ \E k \in 1..Len(walkerPool) : walkerPool[k].id = id

\* the population is back at 40 after defeated walkers were retired
C36_Witness ==
  /\ Len(walkers) = targetWalkerCount /\ Cardinality(LiveWalkers) = targetWalkerCount
  /\ tick.n >= 18
  /\ \E e \in released : e[1] = "walker"

\* no active walker is within seekRange of the zombie
NothingToSeek(z) ==
  \A k \in 1..Len(walkers) :
    ~(walkers[k].active /\ distanceTo(z.pos, walkers[k].pos) <= seekRange)

\* C37: separation takes effect on zombies: the velocity two overlapping
\* zombies hold after the applySeparation that ends one ZombieSystem.update
\* is part of the velocity their next update integrates; with nothing in
\* seek range, where seeking adds nothing, it is that velocity.
C37_SeparationCarried ==
  /\ tick.n >= 1 /\ Len(zombies) = 2
  /\ 0 < pairDistance /\ pairDistance < minDistance
  /\ NothingToSeek(zombies[1]) /\ NothingToSeek(zombies[2])
  => \A i \in 1..2 :
       velocityIntegrated(zombies[i], findNearestWalker(zombies[i], St, WalkerIds), St)
         = zombies[i].vel

\* C38: combat is deterministic in simulated time: from the same state, with
\* the same draws, the same unpaused time run as one frame of k steps or as
\* frames of one step has, after the same number j of steps, defeated the
\* same walkers and given every zombie the same number of successful
\* attacks.
C38_SameCombatHoweverSplit ==
  \A k \in FrameSteps : \A j \in {i \in FrameSteps : i <= k} :
    tick.n + k <= MaxBurstSteps =>
      Outcome(RunBurst([St EXCEPT !.now = @ + k * fixedTimeStep], j, FrameDraw))
        = Outcome(RunPaced(St, j, FrameDraw))

\* C39: the performance policy is frozen while paused: a frame that begins
\* and ends with the game paused leaves the monitor's level, cullingEnabled,
\* caps and frame-time history as they were and calls no subscriber.
C39_FrozenWhilePaused ==
  [][requests' # requests /\ isPaused /\ isPaused' =>
       /\ LevelSettings(monitor') = LevelSettings(monitor)
       /\ monitor'.frameTimes = monitor.frameTimes
       /\ monitor'.notified = <<>>]_vars

----------------------------------------------------------------------------
(* Coincident zombies: three zombies in the middle of the field, the first *)
(* two at one point or 5 px apart, the third near or far, destroyed or     *)
(* not, at rest or moving; applySeparation is called on the array as it    *)
(* is, and the game steps.                                                 *)

\* the distance of the first two zombies
CoincideDistances == {0, Px(5)}

\* the distance of the third zombie from the first
ThirdDistances == {Px(3), Px(40)}

\* the velocity of the third zombie
ThirdVelocities == {0, Vel(60)}

InitCoincide ==
  /\ InitRest(freshGame, FALSE, Ms(1000))
  /\ LoopRunning /\ NoPool
  /\ attacker = Zombie(1, 0, 100)
  /\ target = Walker(1, 0, getCurrentArea(0), CHOOSE rnd \in BuildDraws : TRUE)
  /\ walkers = <<>>
  /\ walkerPool = initialWalkerPool(getCurrentArea(0), CHOOSE rnd \in SimDraws : TRUE)
  /\ nextWalkerId = 11 /\ nextZombieId = 6
  /\ monitor = initialMonitor
  /\ LET pool == initialZombiePool(getZombieSpeedMultiplierPct(noUpgrades))
     IN /\ zombiePool = SubSeq(pool, 1, 2)
        /\ \E d \in CoincideDistances, e \in ThirdDistances, v \in ThirdVelocities,
              gone \in BOOLEAN :
             zombies = [i \in 1..3 |->
                          IF i < 3
                          THEN [pool[6 - i] EXCEPT !.pos = Px(400) + (i - 1) * d,
                                                   !.priority = <<8>>]
                          ELSE [pool[3] EXCEPT !.pos = Px(400) + e, !.vel = v,
                                               !.active = ~gone,
                                               !.priority = <<8>>]]

\* collisionSystem.applySeparation(zombies, separationForce)
SeparationCall(separationForce) ==
  /\ requests < MaxSeparationCalls
  /\ requests' = requests + 1
  /\ zombies' = applySeparation(zombies, separationForce)
  /\ ret' = [op |-> "applySeparation", separationForce |-> separationForce,
             entities |-> zombies]
  /\ UNCHANGED <<gameVars, hostVars, inputVars, uiVars, walkerVars, zombiePool, nextZombieId,
                 mgrVars, lifeVars, atkVars, poolVars, frame, tick, clickPaused, handed,
                 released>>

NextCoincide ==
  \/ \E separationForce \in SepForces : SeparationCall(separationForce)
  \/ \E rnd \in {r \in SimDraws : r.stallAt = 0} : SimStepWith(rnd, MaxCoincideSteps)

SpecCoincide == InitCoincide /\ [][NextCoincide]_vars

\* entity i of es has no active neighbour that applySeparation would count
\* were it not for a distance of 0: every one is coincident or at
\* minDistance or further
OnlyCoincidentOrFar(es, i) ==
  \A j \in 1..Len(es) :
    j # i /\ es[j].active =>
      \/ distanceTo(es[i].pos, es[j].pos) = 0
      \/ distanceTo(es[i].pos, es[j].pos) >= (es[i].size + es[j].size) \div 2 + Px(5)

====
